---- MODULE Spec2Model ----
(***************************************************************************)
(* Client-side caches of achieve-diary (days-store, days-refresh,          *)
(* aliases-store) over localStorage, and the pure tag functions of         *)
(* lib/diary.ts.  The model is of the browser side (window and             *)
(* localStorage present).                                                  *)
(*                                                                         *)
(* A JS string is a sequence of characters; a character is an atom.  ASCII *)
(* characters are themselves, the others are written by code point         *)
(* ("U+3000").  An array carries the identity of the object that holds it  *)
(* (ref) next to its content (val): 0 is the module constant               *)
(* EMPTY_ENTRIES, every array a scan builds gets an identity no live       *)
(* reference holds.                                                        *)
(***************************************************************************)
EXTENDS Integers, Sequences, FiniteSets, TLC

VARIABLES
    now,            \* Date.now()
    hasIdle,        \* window.requestIdleCallback exists
    store,          \* window.localStorage: key -> raw value or NoItem
    events,         \* other-tab "storage" events not yet delivered (their keys)
    tasks,          \* callbacks the environment holds (timers, idle callbacks)
    winListeners,   \* "storage" listeners attached to window
    mutationListeners, \* storage.ts mutationListeners
    daysStore,      \* module state of lib/days-store.ts
    daysRefresh,    \* module state of lib/days-refresh.ts
    aliasesStore,   \* module state of lib/aliases-store.ts
    handles,        \* unsubscribe closures handed out and not yet invoked
    saved,          \* the dictionary this tab saved last, while it is what the storage holds
    lastOp,         \* the operation of the last step and what it gave back
    pure            \* input and result of the pure function under test

vars == <<now, hasIdle, store, events, tasks, winListeners, mutationListeners,
          daysStore, daysRefresh, aliasesStore, handles, saved, lastOp, pure>>

\* null where a list or a dictionary is expected
Null == [ref |-> -1, val |-> <<>>]

(***************************************************************************)
(* Characters and strings                                                  *)
(***************************************************************************)

\* String.prototype.normalize("NFKC") on one character: the fullwidth forms
\* and the ideographic space fold to ASCII, everything else stays.
NFKCChar(c) ==
    CASE c = "U+FF03" -> "#"
      [] c = "U+FF08" -> "("
      [] c = "U+FF09" -> ")"
      [] c = "U+FF0E" -> "."
      [] c = "U+FF01" -> "!"
      [] c = "U+FF1F" -> "?"
      [] c = "U+FF21" -> "A"
      [] c = "U+3000" -> " "
      [] OTHER -> c

NFKC(s) == [i \in 1..Len(s) |-> NFKCChar(s[i])]

\* String.prototype.toLowerCase on one character
LowerChar(c) ==
    CASE c = "A" -> "a"
      [] c = "B" -> "b"
      [] c = "X" -> "x"
      [] c = "U+FF21" -> "U+FF41"
      [] OTHER -> c

toLowerCase(s) == [i \in 1..Len(s) |-> LowerChar(s[i])]

\* white space of String.prototype.trim and of the regular expression class \s
WhiteSpace == {" ", "\n", "\t", "U+3000"}

RECURSIVE trimStart(_)
trimStart(s) ==
    IF s # <<>> /\ Head(s) \in WhiteSpace THEN trimStart(Tail(s)) ELSE s

RECURSIVE trimEnd(_)
trimEnd(s) ==
    IF s # <<>> /\ s[Len(s)] \in WhiteSpace
    THEN trimEnd(SubSeq(s, 1, Len(s) - 1))
    ELSE s

trim(s) == trimEnd(trimStart(s))

\* the class of /^[\(\[【「『（]+/
OpenBrackets == {"(", "[", "U+3010", "U+300C", "U+300E", "U+FF08"}

\* the class of /[\)\]\}】」』）、。．.,!?:;！？]+$/
ClosePunct == {")", "]", "}", "U+3011", "U+300D", "U+300F", "U+FF09",
               "U+3001", "U+3002", "U+FF0E", ".", ",", "!", "?", ":", ";",
               "U+FF01", "U+FF1F"}

RECURSIVE stripLeading(_, _)
stripLeading(s, class) ==
    IF s # <<>> /\ Head(s) \in class THEN stripLeading(Tail(s), class) ELSE s

RECURSIVE stripTrailing(_, _)
stripTrailing(s, class) ==
    IF s # <<>> /\ s[Len(s)] \in class
    THEN stripTrailing(SubSeq(s, 1, Len(s) - 1), class)
    ELSE s

(***************************************************************************)
(* lib/diary.ts: alias keys, alias values, dictionaries                    *)
(***************************************************************************)

normalizeAliasKey(raw) ==
    LET q0 == trim(NFKC(raw))
        q1 == IF q0 # <<>> /\ Head(q0) = "#" THEN Tail(q0) ELSE q0
        q2 == stripLeading(q1, OpenBrackets)
        q3 == stripTrailing(q2, ClosePunct)
    IN toLowerCase(trim(q3))

normalizeAliasValue(raw) == trim(NFKC(raw))

\* A TagAliases object is the sequence of its own <<key, value>> properties
\* in insertion order, keys pairwise distinct.
Keys(d) == {d[i][1] : i \in 1..Len(d)}

HasKey(d, k) == k \in Keys(d)

Get(d, k) == d[CHOOSE i \in 1..Len(d) : d[i][1] = k][2]

\* out[k] = v
Put(d, k, v) ==
    IF HasKey(d, k)
    THEN [i \in 1..Len(d) |-> IF d[i][1] = k THEN <<k, v>> ELSE d[i]]
    ELSE Append(d, <<k, v>>)

\* the object as a set of properties: what a comparison by value sees
AsMap(d) == {d[i] : i \in 1..Len(d)}

DEFAULT_TAG_ALIASES ==
    << << <<"U+3051", "U+3093", "U+3053", "U+3046">>, <<"U+5065", "U+5EB7">> >>,
       << <<"U+3079", "U+3093", "U+304D", "U+3087", "U+3046">>, <<"U+5B66", "U+7FD2">> >>,
       << <<"U+3058", "U+3080">>, <<"U+4E8B", "U+52D9">> >>,
       << <<"h", "e", "a", "l", "t", "h">>, <<"U+5065", "U+5EB7">> >>,
       << <<"s", "t", "u", "d", "y">>, <<"U+5B66", "U+7FD2">> >>,
       << <<"w", "o", "r", "k">>, <<"U+4ED5", "U+4E8B">> >> >>

\* The names a plain object inherits from Object.prototype that survive
\* toLowerCase: aliases[k] gives a function or an object for them.
ObjectPrototypeKeys ==
    { <<"c", "o", "n", "s", "t", "r", "u", "c", "t", "o", "r">>,
      <<"_", "_", "p", "r", "o", "t", "o", "_", "_">> }

\* aliases[k]: an own property, a member of Object.prototype, or undefined
Lookup(aliases, k) ==
    IF HasKey(aliases, k) THEN [t |-> "string", v |-> Get(aliases, k)]
    ELSE IF k \in ObjectPrototypeKeys THEN [t |-> "object", v |-> <<>>]
    ELSE [t |-> "undefined", v |-> <<>>]

Truthy(x) == x.t = "object" \/ (x.t = "string" /\ x.v # <<>>)

\* The result of a call that can throw: threw, or the value v.
Returned(v) == [threw |-> FALSE, v |-> v]
Threw == [threw |-> TRUE, v |-> <<>>]

canonicalizeTag(raw, aliases) ==
    LET k == normalizeAliasKey(raw)
        aliased == Lookup(aliases, k)
    IN IF k = <<>> THEN Returned(<<>>)
       ELSE IF ~Truthy(aliased) THEN Returned(k)
       ELSE IF aliased.t # "string" THEN Threw   \* raw.normalize is not a function
       ELSE Returned(normalizeAliasValue(aliased.v))

\* the end (exclusive) of the run of [^\s#] that starts at i
RECURSIVE runEnd(_, _)
runEnd(text, i) ==
    IF i <= Len(text) /\ text[i] \notin WhiteSpace /\ text[i] # "#"
    THEN runEnd(text, i + 1)
    ELSE i

\* Set.prototype.add on a set kept in insertion order
SetAdd(seq, x) == IF \E i \in 1..Len(seq) : seq[i] = x THEN seq ELSE Append(seq, x)

\* the loop of extractTags from lastIndex i on, with the set built so far
RECURSIVE extractLoop(_, _, _, _)
extractLoop(text, aliases, i, set) ==
    IF i > Len(text) THEN Returned(set)
    ELSE IF text[i] = "#" /\ runEnd(text, i + 1) > i + 1
    THEN LET e == runEnd(text, i + 1)
             m1 == SubSeq(text, i + 1, e - 1)
             tag == stripTrailing(stripLeading(m1, OpenBrackets), ClosePunct)
             canon == canonicalizeTag(tag, aliases)
         IN IF canon.threw THEN Threw
            ELSE IF canon.v = <<>> THEN extractLoop(text, aliases, e, set)
            ELSE extractLoop(text, aliases, e, SetAdd(set, canon.v))
    ELSE extractLoop(text, aliases, i + 1, set)

extractTags(text, aliases) == extractLoop(text, aliases, 1, <<>>)

(***************************************************************************)
(* window.localStorage                                                     *)
(***************************************************************************)

\* A key is <<prefix, rest>>, so that startsWith and slice are what they are.
DAY_KEY_PREFIX == "achieve:day:"
META_UPDATED_AT_KEY == <<"", "achieve:meta:lastUpdatedAt">>
TAG_ALIASES_KEY == <<"", "achieve:tag-aliases:v1">>
OTHER_KEY == <<"", "achieve:pref:tag-auto-space">>

\* the dates of the model, oldest first (the order of localeCompare)
Ymds == <<"2024-01-01", "2024-01-02">>

dayKey(ymd) == <<DAY_KEY_PREFIX, ymd>>

DayKeys == {dayKey(Ymds[i]) : i \in 1..Len(Ymds)}

StoreKeys == DayKeys \cup {META_UPDATED_AT_KEY, TAG_ALIASES_KEY}

isYmdString(v) == \E i \in 1..Len(Ymds) : Ymds[i] = v

\* a.localeCompare(b) > 0 on dates and ""
YmdAfter(a, b) ==
    /\ a # ""
    /\ \/ b = ""
       \/ \E i, j \in 1..Len(Ymds) : Ymds[i] = a /\ Ymds[j] = b /\ i > j

\* getItem(k) === null
Absent == [t |-> "none"]
\* a value JSON.parse rejects or that is no object
Malformed == [t |-> "bad"]
\* nowIso() at time n, as the stored string
Stamp(n) == [t |-> "stamp", v |-> n]
\* JSON of a day record with these items
DayJson(items) == [t |-> "day", items |-> items]
\* JSON of a TagAliases object
DictJson(d) == [t |-> "dict", d |-> d]

\* readStamp gives "" for a missing key: 0 stands for it
NoStamp == 0

(***************************************************************************)
(* lib/storage.ts: reading day records                                     *)
(***************************************************************************)

Item1 == [id |-> "i1", text |-> "walk"]

\* normalizeItem keeps an item whose id and text are non-empty after trim
normalizeItems(items) == SelectSeq(items, LAMBDA x : x.id # "" /\ x.text # "")

normalizeDay(ymd, parsed) ==
    IF parsed.t # "day"
    THEN [ymd |-> ymd, items |-> <<>>]
    ELSE [ymd |-> ymd, items |-> normalizeItems(parsed.items)]

\* the day keys of the storage that hold a value, newest date first
RECURSIVE ScanFrom(_, _)
ScanFrom(storage, i) ==
    IF i = 0 THEN <<>>
    ELSE LET k == dayKey(Ymds[i])
         IN IF storage[k] = Absent
            THEN ScanFrom(storage, i - 1)
            ELSE <<[ymd |-> Ymds[i], day |-> normalizeDay(Ymds[i], storage[k])]>>
                 \o ScanFrom(storage, i - 1)

scanDaysFromStorage(storage) == ScanFrom(storage, Len(Ymds))

(***************************************************************************)
(* lib/days-store.ts                                                       *)
(***************************************************************************)

MaxRef == 4

\* the identity of a newly built array: one that no live reference holds
FreshRef(live) ==
    CHOOSE r \in 1..MaxRef :
        r \notin live /\ \A q \in 1..MaxRef : q \notin live => r <= q

EMPTY_ENTRIES == [ref |-> 0, val |-> <<>>]

readStamp(storage) ==
    IF storage[META_UPDATED_AT_KEY].t = "stamp"
    THEN storage[META_UPDATED_AT_KEY].v
    ELSE NoStamp

RECURSIVE MaxYmdFrom(_, _)
MaxYmdFrom(storage, i) ==
    IF i = 0 THEN ""
    ELSE IF storage[dayKey(Ymds[i])] # Absent THEN Ymds[i]
    ELSE MaxYmdFrom(storage, i - 1)

computeKeyStats(storage) ==
    [count |-> Cardinality({k \in DayKeys : storage[k] # Absent}),
     max |-> MaxYmdFrom(storage, Len(Ymds))]

shouldRescan_IgnoreDirty(ds, storage) ==
    \/ ~ds.loaded
    \/ readStamp(storage) # ds.stamp
    \/ computeKeyStats(storage).count # ds.keyCount
    \/ computeKeyStats(storage).max # ds.maxYmd

shouldRescan_StampOnly(ds, storage) ==
    ~ds.loaded \/ ds.dirty \/ readStamp(storage) # ds.stamp

shouldRescan(ds, storage) ==
    \/ ~ds.loaded
    \/ ds.dirty
    \/ readStamp(storage) # ds.stamp
    \/ computeKeyStats(storage).count # ds.keyCount
    \/ computeKeyStats(storage).max # ds.maxYmd

\* live: the identities held outside the store when the scan allocates
rescan(ds, storage, live) ==
    LET next == scanDaysFromStorage(storage)
    IN [ds EXCEPT
          !.cache = IF Len(next) # 0
                    THEN [ref |-> FreshRef(live \cup {ds.cache.ref}), val |-> next]
                    ELSE EMPTY_ENTRIES,
          !.loaded = TRUE,
          !.stamp = readStamp(storage),
          !.keyCount = computeKeyStats(storage).count,
          !.maxYmd = computeKeyStats(storage).max,
          !.dirty = FALSE]

\* the "storage" listener of days-store
onStorageEvent(ds, key) ==
    IF key = META_UPDATED_AT_KEY \/ key[1] = DAY_KEY_PREFIX
    THEN [ds EXCEPT !.dirty = TRUE]
    ELSE ds

getDaysSnapshot_NoLoadedCheck == daysStore.cache

getDaysSnapshot == IF ~daysStore.loaded THEN Null ELSE daysStore.cache

\* What a call gives back: the module state after it (st), its return value,
\* whether it scanned the storage, whether it called emitChange.
Outcome(ds, ret, scanned, emitted) ==
    [st |-> ds, ret |-> ret, scanned |-> scanned, emitted |-> emitted]

loadDaysIfNeeded(ds, storage, force, live) ==
    LET need == IF force THEN TRUE ELSE shouldRescan(ds, storage)
        after == rescan(ds, storage, live)
    IN IF ~need THEN Outcome(ds, ds.cache, FALSE, FALSE)
       ELSE Outcome(after, after.cache, TRUE,
                    ~ds.loaded \/ ds.cache.ref # after.cache.ref)

refreshDaysNow(ds, storage, live) == loadDaysIfNeeded(ds, storage, TRUE, live)

(***************************************************************************)
(* lib/client-scheduler.ts: runIdle, and the callbacks the browser holds   *)
(***************************************************************************)

MaxTasks == 2

FreshTask(tks) ==
    CHOOSE n \in 1..MaxTasks + 1 :
        (\A t \in tks : t.id # n)
        /\ \A q \in 1..MaxTasks + 1 : (\A t \in tks : t.id # q) => n <= q

Task(id, kind, owner, force) ==
    [id |-> id, kind |-> kind, owner |-> owner, force |-> force]

\* window.setTimeout(cb, 0)
setTimeout(tks, owner, force) ==
    tks \cup {Task(FreshTask(tks), "timeout", owner, force)}

\* runIdle(cb): requestIdleCallback where the browser has it, else setTimeout(cb, 0)
runIdle(tks, idle, owner, force) ==
    tks \cup {Task(FreshTask(tks), IF idle THEN "idle" ELSE "timeout", owner, force)}

\* runIdle where the browser hands out the handle id
runIdleAt(tks, idle, owner, force, id) ==
    tks \cup {Task(id, IF idle THEN "idle" ELSE "timeout", owner, force)}

cancel_Noop(tks, id) == tks

\* the CancelFn that runIdle returned for task id; 0 is no task
cancel(tks, id) == {t \in tks : t.id # id}

(***************************************************************************)
(* lib/days-refresh.ts                                                     *)
(***************************************************************************)

ThrottleMsDefault == 500

NoLoad(ds) == Outcome(ds, Null, FALSE, FALSE)

\* What a request gives back: the coordinator state (dr), the callbacks
\* held, and the outcome of the load it ran itself, if it ran one.
Requested(dr, tks, load) == [dr |-> dr, tasks |-> tks, load |-> load]

requestDaysRefresh_NoPendingCheck(dr, ds, storage, tks, idle, t, force, immediate, throttleMs, live) ==
    IF ~force /\ t - dr.lastRequestedAt < throttleMs
    THEN Requested(dr, tks, NoLoad(ds))
    ELSE IF immediate
    THEN Requested([dr EXCEPT !.lastRequestedAt = t], tks,
                   loadDaysIfNeeded(ds, storage, force, live))
    ELSE Requested([dr EXCEPT !.lastRequestedAt = t, !.jobCancel = FreshTask(tks)],
                   runIdle(tks, idle, "days", force), NoLoad(ds))

requestDaysRefresh_ImmediateDeferred(dr, ds, storage, tks, idle, t, force, immediate, throttleMs, live) ==
    IF ~force /\ t - dr.lastRequestedAt < throttleMs
    THEN Requested(dr, tks, NoLoad(ds))
    ELSE IF dr.jobCancel # 0
    THEN Requested([dr EXCEPT !.lastRequestedAt = t], tks, NoLoad(ds))
    ELSE Requested([dr EXCEPT !.lastRequestedAt = t, !.jobCancel = FreshTask(tks)],
                   runIdle(tks, idle, "days", force), NoLoad(ds))

requestDaysRefresh_DropMovesGate(dr, ds, storage, tks, idle, t, force, immediate, throttleMs, live) ==
    IF ~force /\ t - dr.lastRequestedAt < throttleMs
    THEN Requested([dr EXCEPT !.lastRequestedAt = t], tks, NoLoad(ds))
    ELSE IF dr.jobCancel # 0
    THEN Requested([dr EXCEPT !.lastRequestedAt = t], tks, NoLoad(ds))
    ELSE IF immediate
    THEN Requested([dr EXCEPT !.lastRequestedAt = t], tks,
                   loadDaysIfNeeded(ds, storage, force, live))
    ELSE Requested([dr EXCEPT !.lastRequestedAt = t, !.jobCancel = FreshTask(tks)],
                   runIdle(tks, idle, "days", force), NoLoad(ds))

requestDaysRefresh(dr, ds, storage, tks, idle, t, force, immediate, throttleMs, live) ==
    IF ~force /\ t - dr.lastRequestedAt < throttleMs
    THEN Requested(dr, tks, NoLoad(ds))
    ELSE IF dr.jobCancel # 0
    THEN Requested([dr EXCEPT !.lastRequestedAt = t], tks, NoLoad(ds))
    ELSE IF immediate
    THEN Requested([dr EXCEPT !.lastRequestedAt = t], tks,
                   loadDaysIfNeeded(ds, storage, force, live))
    ELSE Requested([dr EXCEPT !.lastRequestedAt = t, !.jobCancel = FreshTask(tks)],
                   runIdle(tks, idle, "days", force), NoLoad(ds))

cancelDaysRefresh(dr, tks) ==
    [dr |-> [dr EXCEPT !.jobCancel = 0], tasks |-> cancel(tks, dr.jobCancel)]

(***************************************************************************)
(* lib/diary.ts and lib/aliases-store.ts: the alias dictionary             *)
(***************************************************************************)

\* the loop of loadTagAliases and of rowsToAliases over entries i..Len
RECURSIVE normalizeEntries(_, _, _)
normalizeEntries(entries, i, out) ==
    IF i > Len(entries) THEN out
    ELSE LET nk == normalizeAliasKey(entries[i][1])
             nv == normalizeAliasValue(entries[i][2])
         IN IF nk = <<>> \/ nv = <<>>
            THEN normalizeEntries(entries, i + 1, out)
            ELSE normalizeEntries(entries, i + 1, Put(out, nk, nv))

loadTagAliases(storage) ==
    IF storage[TAG_ALIASES_KEY].t # "dict" THEN DEFAULT_TAG_ALIASES
    ELSE LET out == normalizeEntries(storage[TAG_ALIASES_KEY].d, 1, <<>>)
         IN IF Len(out) = 0 THEN DEFAULT_TAG_ALIASES ELSE out

saveTagAliases(storage, aliases) ==
    [storage EXCEPT ![TAG_ALIASES_KEY] = DictJson(aliases)]

resetTagAliases(storage) == saveTagAliases(storage, DEFAULT_TAG_ALIASES)

shallowEqual(a, b) ==
    /\ Len(a) = Len(b)
    /\ \A i \in 1..Len(a) : Lookup(b, a[i][1]) = [t |-> "string", v |-> a[i][2]]

markDirty(as) == [as EXCEPT !.dirty = TRUE]

shouldReload(as, force) == force \/ ~as.loaded \/ as.dirty

reloadNow_AlwaysReplace(as, storage, force, live) ==
    LET after == [as EXCEPT
                    !.loaded = TRUE,
                    !.dirty = FALSE,
                    !.cache = [ref |-> FreshRef(live \cup {as.cache.ref}),
                               val |-> loadTagAliases(storage)]]
    IN IF ~shouldReload(as, force) THEN Outcome(as, as.cache, FALSE, FALSE)
       ELSE Outcome(after, after.cache, TRUE, TRUE)

reloadNow(as, storage, force, live) ==
    LET next == loadTagAliases(storage)
        changed == ~as.loaded \/ ~shallowEqual(as.cache.val, next)
        after == [as EXCEPT
                    !.loaded = TRUE,
                    !.dirty = FALSE,
                    !.cache = IF changed
                              THEN [ref |-> FreshRef(live \cup {as.cache.ref}), val |-> next]
                              ELSE @]
    IN IF ~shouldReload(as, force) THEN Outcome(as, as.cache, FALSE, FALSE)
       ELSE Outcome(after, after.cache, TRUE, changed)

onAliasStorageEvent_AnyKey(as, key) == markDirty(as)

\* the "storage" listener of aliases-store
onAliasStorageEvent(as, key) ==
    IF key[1] = DAY_KEY_PREFIX \/ key = META_UPDATED_AT_KEY THEN as ELSE markDirty(as)

getTagAliasesSnapshot == IF ~aliasesStore.loaded THEN Null ELSE aliasesStore.cache

requestTagAliasesRefresh_ImmediateIdle(as, tks, idle, t, force, immediate, throttleMs) ==
    IF ~force /\ t - as.refreshGateMs < throttleMs
    THEN [as |-> as, tasks |-> tks]
    ELSE IF as.scheduledCancel # 0
    THEN [as |-> [as EXCEPT !.refreshGateMs = t], tasks |-> tks]
    ELSE [as |-> [as EXCEPT !.refreshGateMs = t, !.scheduledCancel = FreshTask(tks)],
          tasks |-> runIdle(tks, idle, "aliasesIdle", force)]

requestTagAliasesRefresh(as, tks, idle, t, force, immediate, throttleMs) ==
    IF ~force /\ t - as.refreshGateMs < throttleMs
    THEN [as |-> as, tasks |-> tks]
    ELSE IF as.scheduledCancel # 0
    THEN [as |-> [as EXCEPT !.refreshGateMs = t], tasks |-> tks]
    ELSE IF immediate
    THEN [as |-> [as EXCEPT !.refreshGateMs = t],
          tasks |-> setTimeout(tks, "aliasesTimer", force)]
    ELSE [as |-> [as EXCEPT !.refreshGateMs = t, !.scheduledCancel = FreshTask(tks)],
          tasks |-> runIdle(tks, idle, "aliasesIdle", force)]

notifyTagAliasesMutated(as, tks, idle, t) ==
    requestTagAliasesRefresh(markDirty(as), tks, idle, t, TRUE, TRUE, ThrottleMsDefault)

(***************************************************************************)
(* components/insights/TagAliasesEditor.tsx: what the editor saves         *)
(***************************************************************************)

rowsToAliases(rows) == normalizeEntries(rows, 1, <<>>)

\* validation.canSave: no normalized key is given by two valid rows
canSave(rows) ==
    \A i, j \in 1..Len(rows) :
        (/\ i # j
         /\ normalizeAliasKey(rows[i][1]) # <<>> /\ normalizeAliasValue(rows[i][2]) # <<>>
         /\ normalizeAliasKey(rows[j][1]) # <<>> /\ normalizeAliasValue(rows[j][2]) # <<>>)
        => normalizeAliasKey(rows[i][1]) # normalizeAliasKey(rows[j][1])

\* getClientSnapshot of useTagAliases: the cache, or a direct read before the first load
getClientSnapshot(as, storage) ==
    IF as.loaded THEN as.cache.val ELSE loadTagAliases(storage)

(***************************************************************************)
(* State                                                                   *)
(***************************************************************************)

StartNow == 1000
MaxNow == 1500
TickMs == ThrottleMsDefault \div 2

MaxSubs == 2
MaxEvents == 1
Listeners == {"L1"}

NoKey == <<"", "">>

\* the record of one step: the operation, its arguments, and what the load
\* it ran (if any) returned, scanned and notified
Op(name, force, immediate, key, load, notified) ==
    [name |-> name, force |-> force, immediate |-> immediate, key |-> key,
     ret |-> load.ret, scanned |-> load.scanned, emitted |-> load.emitted,
     notified |-> notified, threw |-> FALSE, writes |-> 0]

Silent == [ret |-> Null, scanned |-> FALSE, emitted |-> FALSE]

Plain(name) == Op(name, FALSE, FALSE, NoKey, Silent, {})

EmptyStorage == [k \in StoreKeys |-> Absent]

PureIdle ==
    [fn |-> "none", phase |-> "input", s |-> <<>>, dict |-> <<>>,
     k1 |-> <<>>, k2 |-> <<>>, out |-> Returned(<<>>)]

InitModules ==
    /\ now = StartNow
    /\ events = {}
    /\ tasks = {}
    /\ winListeners = {}
    /\ mutationListeners = {}
    /\ daysStore = [loaded |-> FALSE, cache |-> EMPTY_ENTRIES, stamp |-> NoStamp,
                    keyCount |-> 0, maxYmd |-> "", dirty |-> TRUE,
                    refCount |-> 0, listeners |-> {}]
    /\ daysRefresh = [lastRequestedAt |-> 0, jobCancel |-> 0]
    /\ aliasesStore = [loaded |-> FALSE, cache |-> [ref |-> 0, val |-> <<>>],
                       dirty |-> TRUE, refreshGateMs |-> 0, scheduledCancel |-> 0,
                       refCount |-> 0, listeners |-> {}]
    /\ handles = [m \in {"days", "aliases"} |-> [l \in Listeners |-> 0]]
    /\ saved = [d |-> <<>>, held |-> FALSE]
    /\ lastOp = Plain("init")

\* a freshly loaded page over an empty storage
Init ==
    /\ InitModules
    /\ hasIdle = TRUE
    /\ store = EmptyStorage
    /\ pure = PureIdle

\* the same, in a browser with or without requestIdleCallback
InitAnyBrowser ==
    /\ InitModules
    /\ hasIdle \in BOOLEAN
    /\ store = EmptyStorage
    /\ pure = PureIdle

(***************************************************************************)
(* The environment: time, other tabs, the event loop                       *)
(***************************************************************************)

Tick ==
    /\ now + TickMs <= MaxNow
    /\ now' = now + TickMs
    /\ lastOp' = Plain("tick")
    /\ UNCHANGED <<hasIdle, store, events, tasks, winListeners, mutationListeners,
                   daysStore, daysRefresh, aliasesStore, handles, saved, pure>>

\* what another tab may put under the key of a date
DayRaws(k) ==
    IF k = dayKey(Ymds[1]) THEN {DayJson(<<>>), DayJson(<<Item1>>)} ELSE {DayJson(<<>>)}

\* Another tab writes or removes a day record or writes the last-write key;
\* the browser queues a "storage" event for this tab.
OtherTabSetsDay(k, v) ==
    /\ Cardinality(events) < MaxEvents
    /\ store[k] # v
    /\ store' = [store EXCEPT ![k] = v]
    /\ events' = events \cup {k}
    /\ lastOp' = Op("otherTabSetItem", FALSE, FALSE, k, Silent, {})
    /\ UNCHANGED <<now, hasIdle, tasks, winListeners, mutationListeners,
                   daysStore, daysRefresh, aliasesStore, handles, saved, pure>>

\* Another tab writes a key that is neither a day record, the last-write key
\* nor the dictionary (a preference).
OtherTabSetsOther ==
    /\ Cardinality(events) < MaxEvents
    /\ OTHER_KEY \notin events
    /\ events' = events \cup {OTHER_KEY}
    /\ lastOp' = Op("otherTabSetItem", FALSE, FALSE, OTHER_KEY, Silent, {})
    /\ UNCHANGED <<now, hasIdle, store, tasks, winListeners, mutationListeners,
                   daysStore, daysRefresh, aliasesStore, handles, saved, pure>>

\* The browser dispatches a queued "storage" event to the listeners attached.
StorageEvent(k) ==
    /\ k \in events
    /\ events' = events \ {k}
    /\ daysStore' = IF "days" \in winListeners
                     THEN onStorageEvent(daysStore, k) ELSE daysStore
    /\ aliasesStore' = IF "aliases" \in winListeners
                        THEN onAliasStorageEvent(aliasesStore, k) ELSE aliasesStore
    /\ lastOp' = Op("storageEvent", FALSE, FALSE, k, Silent, {})
    /\ UNCHANGED <<now, hasIdle, store, tasks, winListeners, mutationListeners,
                   daysRefresh, handles, saved, pure>>

(***************************************************************************)
(* lib/storage.ts: saveDay in this tab                                     *)
(***************************************************************************)

emitStorageMutation_Noop(ds, ml) == ds

\* emitStorageMutation: the listeners days-store and aliases-store registered
emitStorageMutation(ds, ml) == IF "days" \in ml THEN [ds EXCEPT !.dirty = TRUE] ELSE ds

emitStorageMutationAliases(as, ml) == IF "aliases" \in ml THEN markDirty(as) ELSE as

SaveDay(ymd, items) ==
    /\ IF isYmdString(ymd)
       THEN /\ store' = [store EXCEPT ![dayKey(ymd)] = DayJson(items),
                                      ![META_UPDATED_AT_KEY] = Stamp(now)]
            /\ daysStore' = emitStorageMutation(daysStore, mutationListeners)
            /\ aliasesStore' = emitStorageMutationAliases(aliasesStore, mutationListeners)
       ELSE UNCHANGED <<store, daysStore, aliasesStore>>
    /\ lastOp' = Op("saveDay", FALSE, FALSE, <<DAY_KEY_PREFIX, ymd>>, Silent, {})
    /\ UNCHANGED <<now, hasIdle, events, tasks, winListeners, mutationListeners,
                   daysRefresh, handles, saved, pure>>

(***************************************************************************)
(* Calls into lib/days-store.ts and lib/days-refresh.ts                    *)
(***************************************************************************)

\* the list identities a caller still holds
LiveRefs ==
    {lastOp.ret.ref}
    \cup (IF pure.fn = "useTagSuggest" THEN {pure.entries.ref, pure.aliases.ref} ELSE {})

Notified(listeners, load) == IF load.emitted THEN listeners ELSE {}

\* subscribeDays(l); the first subscription attaches the external listeners
SubscribeDays(l) ==
    /\ daysStore.refCount < MaxSubs
    /\ daysStore' = [daysStore EXCEPT !.listeners = @ \cup {l}, !.refCount = @ + 1]
    /\ IF daysStore.refCount + 1 = 1
       THEN /\ winListeners' = winListeners \cup {"days"}
            /\ mutationListeners' = mutationListeners \cup {"days"}
       ELSE UNCHANGED <<winListeners, mutationListeners>>
    /\ handles' = [handles EXCEPT !["days"][l] = @ + 1]
    /\ lastOp' = Plain("subscribeDays")
    /\ UNCHANGED <<now, hasIdle, store, events, tasks, daysRefresh, aliasesStore,
                   saved, pure>>

\* the closure subscribeDays(l) returned, invoked
UnsubscribeDays(l) ==
    /\ handles["days"][l] > 0
    /\ handles' = [handles EXCEPT !["days"][l] = @ - 1]
    /\ LET rc == IF daysStore.refCount - 1 > 0 THEN daysStore.refCount - 1 ELSE 0
       IN /\ daysStore' = [daysStore EXCEPT !.listeners = @ \ {l}, !.refCount = rc]
          /\ IF rc = 0
             THEN /\ winListeners' = winListeners \ {"days"}
                  /\ mutationListeners' = mutationListeners \ {"days"}
             ELSE UNCHANGED <<winListeners, mutationListeners>>
    /\ lastOp' = Plain("unsubscribeDays")
    /\ UNCHANGED <<now, hasIdle, store, events, tasks, daysRefresh, aliasesStore,
                   saved, pure>>

CallLoadDaysIfNeeded(force) ==
    LET r == loadDaysIfNeeded(daysStore, store, force, LiveRefs)
    IN /\ daysStore' = r.st
       /\ lastOp' = Op("loadDaysIfNeeded", force, FALSE, NoKey, r,
                       Notified(daysStore.listeners, r))
       /\ UNCHANGED <<now, hasIdle, store, events, tasks, winListeners,
                      mutationListeners, daysRefresh, aliasesStore, handles, saved, pure>>

CallRefreshDaysNow ==
    LET r == refreshDaysNow(daysStore, store, LiveRefs)
    IN /\ daysStore' = r.st
       /\ lastOp' = Op("refreshDaysNow", TRUE, FALSE, NoKey, r,
                       Notified(daysStore.listeners, r))
       /\ UNCHANGED <<now, hasIdle, store, events, tasks, winListeners,
                      mutationListeners, daysRefresh, aliasesStore, handles, saved, pure>>

CallRequestDaysRefresh(force, immediate) ==
    LET r == requestDaysRefresh(daysRefresh, daysStore, store, tasks, hasIdle, now,
                                force, immediate, ThrottleMsDefault, LiveRefs)
    IN /\ Cardinality(r.tasks) <= MaxTasks
       /\ daysRefresh' = r.dr
       /\ tasks' = r.tasks
       /\ daysStore' = r.load.st
       /\ lastOp' = Op("requestDaysRefresh", force, immediate, NoKey, r.load,
                       Notified(daysStore.listeners, r.load))
       /\ UNCHANGED <<now, hasIdle, store, events, winListeners, mutationListeners,
                      aliasesStore, handles, saved, pure>>

CallCancelDaysRefresh ==
    LET r == cancelDaysRefresh(daysRefresh, tasks)
    IN /\ daysRefresh' = r.dr
       /\ tasks' = r.tasks
       /\ lastOp' = Plain("cancelDaysRefresh")
       /\ UNCHANGED <<now, hasIdle, store, events, winListeners, mutationListeners,
                      daysStore, aliasesStore, handles, saved, pure>>

\* The browser runs the callback days-refresh handed to runIdle.
RunDaysJob(t) ==
    /\ t \in tasks
    /\ t.owner = "days"
    /\ tasks' = tasks \ {t}
    /\ daysRefresh' = [daysRefresh EXCEPT !.jobCancel = 0]
    /\ LET r == loadDaysIfNeeded(daysStore, store, t.force, LiveRefs)
       IN /\ daysStore' = r.st
          /\ lastOp' = Op("daysJob", t.force, FALSE, NoKey, r,
                          Notified(daysStore.listeners, r))
    /\ UNCHANGED <<now, hasIdle, store, events, winListeners, mutationListeners,
                   aliasesStore, handles, saved, pure>>

\* The days cache under every call that reaches it: loadDaysIfNeeded is called
\* with either force at any moment, which covers every call days-refresh makes.
NextDays ==
    \/ Tick
    \/ \E k \in DayKeys : \E v \in DayRaws(k) \cup {Absent} : OtherTabSetsDay(k, v)
    \/ OtherTabSetsDay(META_UPDATED_AT_KEY, Stamp(now))
    \/ OtherTabSetsOther
    \/ \E k \in events : StorageEvent(k)
    \/ \E y \in {Ymds[1], "2024-1-1"} : SaveDay(y, <<Item1>>)
    \/ \E l \in Listeners : SubscribeDays(l)
    \/ \E l \in Listeners : UnsubscribeDays(l)
    \/ \E f \in BOOLEAN : CallLoadDaysIfNeeded(f)
    \/ CallRefreshDaysNow

SpecDays == Init /\ [][NextDays]_vars

\* The days coordinator with its cache: requests, the deferred job, time.
NextDaysRefresh ==
    \/ Tick
    \/ \E y \in {Ymds[1]} : SaveDay(y, <<Item1>>)
    \/ \E l \in Listeners : SubscribeDays(l)
    \/ \E f, i \in BOOLEAN : CallRequestDaysRefresh(f, i)
    \/ CallCancelDaysRefresh
    \/ \E t \in tasks : RunDaysJob(t)

SpecDaysRefresh == InitAnyBrowser /\ [][NextDaysRefresh]_vars

(***************************************************************************)
(* Calls into lib/aliases-store.ts, and the alias editor                   *)
(***************************************************************************)

SubscribeAliases(l) ==
    /\ aliasesStore.refCount < MaxSubs
    /\ aliasesStore' = [aliasesStore EXCEPT !.listeners = @ \cup {l}, !.refCount = @ + 1]
    /\ IF aliasesStore.refCount + 1 = 1
       THEN /\ winListeners' = winListeners \cup {"aliases"}
            /\ mutationListeners' = mutationListeners \cup {"aliases"}
       ELSE UNCHANGED <<winListeners, mutationListeners>>
    /\ handles' = [handles EXCEPT !["aliases"][l] = @ + 1]
    /\ lastOp' = Plain("subscribeTagAliases")
    /\ UNCHANGED <<now, hasIdle, store, events, tasks, daysStore, daysRefresh,
                   saved, pure>>

UnsubscribeAliases_DetachAlways(l) ==
    /\ handles["aliases"][l] > 0
    /\ handles' = [handles EXCEPT !["aliases"][l] = @ - 1]
    /\ LET rc == IF aliasesStore.refCount - 1 > 0 THEN aliasesStore.refCount - 1 ELSE 0
       IN aliasesStore' = [aliasesStore EXCEPT !.listeners = @ \ {l}, !.refCount = rc]
    /\ winListeners' = winListeners \ {"aliases"}
    /\ mutationListeners' = mutationListeners \ {"aliases"}
    /\ lastOp' = Plain("unsubscribeTagAliases")
    /\ UNCHANGED <<now, hasIdle, store, events, tasks, daysStore, daysRefresh,
                   saved, pure>>

UnsubscribeAliases(l) ==
    /\ handles["aliases"][l] > 0
    /\ handles' = [handles EXCEPT !["aliases"][l] = @ - 1]
    /\ LET rc == IF aliasesStore.refCount - 1 > 0 THEN aliasesStore.refCount - 1 ELSE 0
       IN /\ aliasesStore' = [aliasesStore EXCEPT !.listeners = @ \ {l}, !.refCount = rc]
          /\ IF rc = 0
             THEN /\ winListeners' = winListeners \ {"aliases"}
                  /\ mutationListeners' = mutationListeners \ {"aliases"}
             ELSE UNCHANGED <<winListeners, mutationListeners>>
    /\ lastOp' = Plain("unsubscribeTagAliases")
    /\ UNCHANGED <<now, hasIdle, store, events, tasks, daysStore, daysRefresh,
                   saved, pure>>

\* loadTagAliasesIfNeeded({force}); refreshTagAliasesNow() is the call with force
CallLoadTagAliasesIfNeeded(force) ==
    LET r == reloadNow(aliasesStore, store, force, LiveRefs)
    IN /\ aliasesStore' = r.st
       /\ lastOp' = Op("loadTagAliasesIfNeeded", force, FALSE, NoKey, r,
                       Notified(aliasesStore.listeners, r))
       /\ UNCHANGED <<now, hasIdle, store, events, tasks, winListeners,
                      mutationListeners, daysStore, daysRefresh, handles, saved, pure>>

CallRequestTagAliasesRefresh(force, immediate) ==
    LET r == requestTagAliasesRefresh(aliasesStore, tasks, hasIdle, now, force,
                                      immediate, ThrottleMsDefault)
    IN /\ Cardinality(r.tasks) <= MaxTasks
       /\ aliasesStore' = r.as
       /\ tasks' = r.tasks
       /\ lastOp' = Op("requestTagAliasesRefresh", force, immediate, NoKey, Silent, {})
       /\ UNCHANGED <<now, hasIdle, store, events, winListeners, mutationListeners,
                      daysStore, daysRefresh, handles, saved, pure>>

\* The browser runs a callback of aliases-store: the idle job clears
\* scheduledCancel first, the timer of an immediate request does not.
RunAliasesJob(t) ==
    /\ t \in tasks
    /\ t.owner \in {"aliasesIdle", "aliasesTimer"}
    /\ tasks' = tasks \ {t}
    /\ LET as == IF t.owner = "aliasesIdle"
                 THEN [aliasesStore EXCEPT !.scheduledCancel = 0]
                 ELSE aliasesStore
           r == reloadNow(as, store, t.force, LiveRefs)
       IN /\ aliasesStore' = r.st
          /\ lastOp' = Op(t.owner, t.force, FALSE, NoKey, r,
                          Notified(aliasesStore.listeners, r))
    /\ UNCHANGED <<now, hasIdle, store, events, winListeners, mutationListeners,
                   daysStore, daysRefresh, handles, saved, pure>>

\* row lists of the editor: none, a key that is its own normal form, a key
\* with two leading "#", a key that normalizes to nothing, and two rows
EditorRows ==
    { <<>>,
      << << <<"a">>, <<"x">> >> >>,
      << << <<"#", "#", "a">>, <<"x">> >> >>,
      << << <<"(">>, <<"x">> >> >>,
      << << <<"a">>, <<"x">> >>, << <<"A">>, <<"x">> >> >>,
      << << <<"a">>, <<"x">> >>, << <<"#", "#", "a">>, <<"x">> >> >> }

\* the row lists the editor may hold that its validation lets it save
SavableRows == {rows \in EditorRows : canSave(rows)}

\* The editor's save button: enabled while no key is duplicated and the rows
\* differ from the dictionary shown; save() stores rowsToAliases(rows) with
\* saveTagAliasesAndNotify.
EditorSave(rows) ==
    LET next == rowsToAliases(rows)
        r == notifyTagAliasesMutated(aliasesStore, tasks, hasIdle, now)
    IN /\ rows \in SavableRows
       /\ ~shallowEqual(next, getClientSnapshot(aliasesStore, store))
       /\ Cardinality(r.tasks) <= MaxTasks
       /\ store' = saveTagAliases(store, next)
       /\ aliasesStore' = r.as
       /\ tasks' = r.tasks
       /\ saved' = [d |-> next, held |-> TRUE]
       /\ lastOp' = Op("saveTagAliasesAndNotify", TRUE, TRUE, TAG_ALIASES_KEY, Silent, {})
       /\ UNCHANGED <<now, hasIdle, events, winListeners, mutationListeners,
                      daysStore, daysRefresh, handles, pure>>

\* The editor's reset button: resetTagAliasesAndNotify.
EditorReset ==
    LET r == notifyTagAliasesMutated(aliasesStore, tasks, hasIdle, now)
    IN /\ Cardinality(r.tasks) <= MaxTasks
       /\ store' = resetTagAliases(store)
       /\ aliasesStore' = r.as
       /\ tasks' = r.tasks
       /\ saved' = [d |-> <<>>, held |-> FALSE]
       /\ lastOp' = Op("resetTagAliasesAndNotify", TRUE, TRUE, TAG_ALIASES_KEY, Silent, {})
       /\ UNCHANGED <<now, hasIdle, events, winListeners, mutationListeners,
                      daysStore, daysRefresh, handles, pure>>

\* what another tab may leave under the dictionary key
AliasRaws == {Absent, DictJson(<< << <<"A">>, <<"x", " ">> >> >>)}

OtherTabSetsAliases(v) ==
    /\ Cardinality(events) < MaxEvents
    /\ store[TAG_ALIASES_KEY] # v
    /\ store' = [store EXCEPT ![TAG_ALIASES_KEY] = v]
    /\ events' = events \cup {TAG_ALIASES_KEY}
    /\ saved' = [d |-> <<>>, held |-> FALSE]
    /\ lastOp' = Op("otherTabSetItem", FALSE, FALSE, TAG_ALIASES_KEY, Silent, {})
    /\ UNCHANGED <<now, hasIdle, tasks, winListeners, mutationListeners,
                   daysStore, daysRefresh, aliasesStore, handles, pure>>

\* The alias cache, its coordinator and the editor at one instant of the
\* clock: a request without force passes the throttle once.
NextAliases ==
    \/ \E v \in AliasRaws : OtherTabSetsAliases(v)
    \/ OtherTabSetsOther
    \/ \E k \in events : StorageEvent(k)
    \/ \E l \in Listeners : SubscribeAliases(l)
    \/ \E l \in Listeners : UnsubscribeAliases(l)
    \/ \E f \in BOOLEAN : CallLoadTagAliasesIfNeeded(f)
    \/ \E f, i \in BOOLEAN : CallRequestTagAliasesRefresh(f, i)
    \/ \E t \in tasks : RunAliasesJob(t)
    \/ \E rows \in SavableRows : EditorSave(rows)
    \/ EditorReset

SpecAliases == Init /\ [][NextAliases]_vars

(***************************************************************************)
(* Writes to a storage that may refuse them                                *)
(***************************************************************************)

\* what a save did: the storage after it, whether it threw, how many setItem
\* calls succeeded, and whether it reached its notification
SaveOutcome(storage, threw, writes, notified) ==
    [storage |-> storage, threw |-> threw, writes |-> writes, notified |-> notified]

\* saveDay(day) in a browser whose localStorage accepts the first `quota`
\* calls of setItem and throws on the next (QuotaExceededError)
saveDay(storage, ymd, items, t, quota) ==
    LET first == [storage EXCEPT ![dayKey(ymd)] = DayJson(items)]
        second == [first EXCEPT ![META_UPDATED_AT_KEY] = Stamp(t)]
    IN IF ~isYmdString(ymd) THEN SaveOutcome(storage, FALSE, 0, FALSE)
       ELSE IF quota = 0 THEN SaveOutcome(storage, TRUE, 0, FALSE)
       ELSE IF quota = 1 THEN SaveOutcome(first, TRUE, 1, FALSE)
       ELSE SaveOutcome(second, FALSE, 2, TRUE)

\* saveTagAliasesAndNotify(storage, aliases), likewise
saveTagAliasesAndNotify(storage, aliases, quota) ==
    IF quota = 0 THEN SaveOutcome(storage, TRUE, 0, FALSE)
    ELSE SaveOutcome(saveTagAliases(storage, aliases), FALSE, 1, TRUE)

SaveDayQuota(ymd, items, quota) ==
    LET r == saveDay(store, ymd, items, now, quota)
    IN /\ store' = r.storage
       /\ daysStore' = IF r.notified
                        THEN emitStorageMutation(daysStore, mutationListeners)
                        ELSE daysStore
       /\ aliasesStore' = IF r.notified
                           THEN emitStorageMutationAliases(aliasesStore, mutationListeners)
                           ELSE aliasesStore
       /\ lastOp' = [Op("saveDay", FALSE, FALSE, <<DAY_KEY_PREFIX, ymd>>, Silent, {})
                        EXCEPT !.threw = r.threw, !.writes = r.writes]
       /\ UNCHANGED <<now, hasIdle, events, tasks, winListeners, mutationListeners,
                      daysRefresh, handles, saved, pure>>

\* the editor's save button, the storage accepting `quota` calls of setItem
EditorSaveQuota(rows, quota) ==
    LET next == rowsToAliases(rows)
        r == saveTagAliasesAndNotify(store, next, quota)
        n == IF r.notified
             THEN notifyTagAliasesMutated(aliasesStore, tasks, hasIdle, now)
             ELSE [as |-> aliasesStore, tasks |-> tasks]
    IN /\ rows \in SavableRows
       /\ ~shallowEqual(next, getClientSnapshot(aliasesStore, store))
       /\ Cardinality(n.tasks) <= MaxTasks
       /\ store' = r.storage
       /\ aliasesStore' = n.as
       /\ tasks' = n.tasks
       /\ saved' = IF r.threw THEN saved ELSE [d |-> next, held |-> TRUE]
       /\ lastOp' = [Op("saveTagAliasesAndNotify", TRUE, TRUE, TAG_ALIASES_KEY, Silent, {})
                        EXCEPT !.threw = r.threw, !.writes = r.writes]
       /\ UNCHANGED <<now, hasIdle, events, winListeners, mutationListeners,
                      daysStore, daysRefresh, handles, pure>>

\* Saves of days and of the dictionary into a storage that may be full, with
\* both caches subscribed and read.
NextWriteFailure ==
    \/ \E l \in Listeners : SubscribeDays(l)
    \/ \E l \in Listeners : SubscribeAliases(l)
    \/ CallLoadDaysIfNeeded(FALSE)
    \/ CallLoadTagAliasesIfNeeded(FALSE)
    \/ \E y \in {Ymds[1], "2024-1-1"} : \E q \in 0..2 : SaveDayQuota(y, <<Item1>>, q)
    \/ \E rows \in SavableRows : \E q \in 0..1 : EditorSaveQuota(rows, q)
    \/ \E t \in tasks : RunAliasesJob(t)

SpecWriteFailure == Init /\ [][NextWriteFailure]_vars

\* Components mount and unmount on both caches while this tab saves a day,
\* another tab writes one, and the day cache is read.
NextSubscriptions ==
    \/ \E l \in Listeners : SubscribeDays(l)
    \/ \E l \in Listeners : UnsubscribeDays(l)
    \/ \E l \in Listeners : SubscribeAliases(l)
    \/ \E l \in Listeners : UnsubscribeAliases(l)
    \/ \E v \in DayRaws(dayKey(Ymds[1])) : OtherTabSetsDay(dayKey(Ymds[1]), v)
    \/ \E k \in events : StorageEvent(k)
    \/ SaveDay(Ymds[1], <<Item1>>)
    \/ CallLoadDaysIfNeeded(FALSE)

SpecSubscriptions == Init /\ [][NextSubscriptions]_vars

\* which listeners have a handle of each cache that was invoked already
NoneSpent == [fn |-> "unsubscribe", spent |-> [m \in {"days", "aliases"} |-> {}]]

\* The closure subscribeDays returned for listener l is invoked: for the first
\* time (it ends a subscription), or again after it was invoked before.
InvokeDaysHandle(l, again) ==
    /\ IF again THEN l \in pure.spent["days"] ELSE handles["days"][l] > 0
    /\ handles' = IF again THEN handles ELSE [handles EXCEPT !["days"][l] = @ - 1]
    /\ pure' = [pure EXCEPT !.spent["days"] = @ \cup {l}]
    /\ LET rc == IF daysStore.refCount - 1 > 0 THEN daysStore.refCount - 1 ELSE 0
       IN /\ daysStore' = [daysStore EXCEPT !.listeners = @ \ {l}, !.refCount = rc]
          /\ IF rc = 0
             THEN /\ winListeners' = winListeners \ {"days"}
                  /\ mutationListeners' = mutationListeners \ {"days"}
             ELSE UNCHANGED <<winListeners, mutationListeners>>
    /\ lastOp' = [Plain("unsubscribeDays") EXCEPT !.force = again]
    /\ UNCHANGED <<now, hasIdle, store, events, tasks, daysRefresh, aliasesStore, saved>>

\* the same for the closure subscribeTagAliases returned
InvokeAliasesHandle(l, again) ==
    /\ IF again THEN l \in pure.spent["aliases"] ELSE handles["aliases"][l] > 0
    /\ handles' = IF again THEN handles ELSE [handles EXCEPT !["aliases"][l] = @ - 1]
    /\ pure' = [pure EXCEPT !.spent["aliases"] = @ \cup {l}]
    /\ LET rc == IF aliasesStore.refCount - 1 > 0 THEN aliasesStore.refCount - 1 ELSE 0
       IN /\ aliasesStore' = [aliasesStore EXCEPT !.listeners = @ \ {l}, !.refCount = rc]
          /\ IF rc = 0
             THEN /\ winListeners' = winListeners \ {"aliases"}
                  /\ mutationListeners' = mutationListeners \ {"aliases"}
             ELSE UNCHANGED <<winListeners, mutationListeners>>
    /\ lastOp' = [Plain("unsubscribeTagAliases") EXCEPT !.force = again]
    /\ UNCHANGED <<now, hasIdle, store, events, tasks, daysStore, daysRefresh, saved>>

InitHandles ==
    /\ InitModules
    /\ hasIdle = TRUE
    /\ store = EmptyStorage
    /\ pure = NoneSpent

\* Subscriptions of both caches with handles invoked any number of times,
\* the one listener function being subscribed more than once.
NextHandles ==
    \/ \E l \in Listeners : handles["days"][l] < MaxSubs /\ SubscribeDays(l)
    \/ \E l \in Listeners : handles["aliases"][l] < MaxSubs /\ SubscribeAliases(l)
    \/ \E l \in Listeners, again \in BOOLEAN : InvokeDaysHandle(l, again)
    \/ \E l \in Listeners, again \in BOOLEAN : InvokeAliasesHandle(l, again)
    \/ \E v \in DayRaws(dayKey(Ymds[1])) : OtherTabSetsDay(dayKey(Ymds[1]), v)
    \/ \E k \in events : StorageEvent(k)
    \/ \E f \in BOOLEAN : CallLoadDaysIfNeeded(f)

SpecHandles == InitHandles /\ [][NextHandles]_vars

\* Both coordinators side by side: requests with every force and immediate,
\* the callbacks they leave with the browser, time, and a write of this tab.
NextRefresh ==
    \/ Tick
    \/ \E y \in {Ymds[1]} : SaveDay(y, <<Item1>>)
    \/ \E f, i \in BOOLEAN : CallRequestDaysRefresh(f, i)
    \/ \E t \in tasks : RunDaysJob(t)
    \/ \E f, i \in BOOLEAN : CallRequestTagAliasesRefresh(f, i)
    \/ \E t \in tasks : RunAliasesJob(t)

SpecRefresh == Init /\ [][NextRefresh]_vars

(***************************************************************************)
(* lib/diary.ts: the pure functions, applied to every input of a bounded   *)
(* set                                                                     *)
(***************************************************************************)

MaxKeyLen == 3
MaxTextLen == 4

\* the strings over an alphabet of length at most n
RECURSIVE StringsUpTo(_, _)
StringsUpTo(alphabet, n) ==
    IF n = 0 THEN {<<>>}
    ELSE LET shorter == StringsUpTo(alphabet, n - 1)
         IN shorter \cup {Append(q, c) : q \in shorter, c \in alphabet}

\* raw alias keys: "#" and its fullwidth form, brackets, punctuation, white
\* space, letters of both cases
KeyAlphabet == {"#", "U+FF03", "(", ")", ".", " ", "a", "A"}

RawKeys == StringsUpTo(KeyAlphabet, MaxKeyLen)

\* item texts: short ones over "#", white space, letters and punctuation, and
\* one with a tag that is the name of a member of Object.prototype
TextAlphabet == {"#", " ", "a", "B", "."}

Texts ==
    StringsUpTo(TextAlphabet, MaxTextLen)
        \cup {<<"#", "c", "o", "n", "s", "t", "r", "u", "c", "t", "o", "r">>}

\* dictionaries as loadTagAliases and rowsToAliases build them
Dictionaries ==
    { <<>>,
      << << <<"a">>, <<"X">> >> >>,
      << << <<"a">>, <<"b">> >> >> }

PureInputs ==
    {[PureIdle EXCEPT !.fn = "normalizeAliasKey", !.s = q] : q \in RawKeys}
        \cup {[PureIdle EXCEPT !.fn = "extractTags", !.s = q, !.dict = d] :
                 q \in Texts, d \in Dictionaries}

InitPure ==
    /\ InitModules
    /\ hasIdle = TRUE
    /\ store = EmptyStorage
    /\ pure \in PureInputs

PureOnly ==
    UNCHANGED <<now, hasIdle, store, events, tasks, winListeners, mutationListeners,
                daysStore, daysRefresh, aliasesStore, handles, saved>>

\* k1 = normalizeAliasKey(s)
CallNormalizeAliasKey ==
    /\ pure.fn = "normalizeAliasKey"
    /\ pure.phase = "input"
    /\ pure' = [pure EXCEPT !.phase = "once", !.k1 = normalizeAliasKey(pure.s)]
    /\ lastOp' = Plain("normalizeAliasKey")
    /\ PureOnly

\* k2 = normalizeAliasKey(k1)
CallNormalizeAliasKeyAgain ==
    /\ pure.fn = "normalizeAliasKey"
    /\ pure.phase = "once"
    /\ pure' = [pure EXCEPT !.phase = "twice", !.k2 = normalizeAliasKey(pure.k1)]
    /\ lastOp' = Plain("normalizeAliasKey")
    /\ PureOnly

\* out = extractTags(s, dict)
CallExtractTags ==
    /\ pure.fn = "extractTags"
    /\ pure.phase = "input"
    /\ pure' = [pure EXCEPT !.phase = "done", !.out = extractTags(pure.s, pure.dict)]
    /\ lastOp' = Plain("extractTags")
    /\ PureOnly

NextPure ==
    \/ CallNormalizeAliasKey
    \/ CallNormalizeAliasKeyAgain
    \/ CallExtractTags

SpecPure == InitPure /\ [][NextPure]_vars

(***************************************************************************)
(* lib/tags/suggest.ts: buildTagSuggestions                                *)
(*                                                                         *)
(* A date (YYYY-MM-DD) is the number of its day, which orders as the       *)
(* string does; 0 is the empty string.                                     *)
(***************************************************************************)

RecentDays == 7

\* lastNYmds(n) on the day `today`: the n dates that end with today
lastNYmds(n, today) == {today - i : i \in 0..(n - 1)}

\* String.prototype.localeCompare on tag names: letters in alphabetical
\* order, whatever their case; the sign of the comparison
LetterRank(c) ==
    CASE c \in {"a", "A"} -> 1
      [] c \in {"b", "B"} -> 2
      [] c \in {"c", "C"} -> 3
      [] c \in {"x", "X"} -> 24
      [] OTHER -> 30

RECURSIVE localeCompare(_, _)
localeCompare(a, b) ==
    IF a = <<>> /\ b = <<>> THEN 0
    ELSE IF a = <<>> THEN -1
    ELSE IF b = <<>> THEN 1
    ELSE IF LetterRank(Head(a)) < LetterRank(Head(b)) THEN -1
    ELSE IF LetterRank(Head(a)) > LetterRank(Head(b)) THEN 1
    ELSE localeCompare(Tail(a), Tail(b))

\* inv.get(tag) of invertAliases(aliases): the keys whose value is tag, as pushed
RECURSIVE invertAliases(_, _, _)
invertAliases(aliases, tag, i) ==
    IF i > Len(aliases) THEN <<>>
    ELSE LET canon == trim(NFKC(aliases[i][2]))
             rest == invertAliases(aliases, tag, i + 1)
         IN IF canon # <<>> /\ canon = tag
            THEN <<toLowerCase(trim(NFKC(aliases[i][1])))>> \o rest
            ELSE rest

\* stat.get(t) ?? {...}; total += 1; ...; stat.set(t, cur), on a Map kept in
\* insertion order
statBump(stat, t, ymd, isRecent7) ==
    IF \E i \in 1..Len(stat) : stat[i].tag = t
    THEN [i \in 1..Len(stat) |->
            IF stat[i].tag = t
            THEN [tag |-> t,
                  total |-> stat[i].total + 1,
                  recent7 |-> stat[i].recent7 + (IF isRecent7 THEN 1 ELSE 0),
                  lastSeen |-> IF stat[i].lastSeen = 0 \/ ymd > stat[i].lastSeen
                               THEN ymd ELSE stat[i].lastSeen]
            ELSE stat[i]]
    ELSE Append(stat, [tag |-> t, total |-> 1,
                       recent7 |-> IF isRecent7 THEN 1 ELSE 0,
                       lastSeen |-> ymd])

\* for (const t of tags)
RECURSIVE statTags(_, _, _, _, _)
statTags(stat, tags, j, ymd, isRecent7) ==
    IF j > Len(tags) THEN stat
    ELSE statTags(statBump(stat, tags[j], ymd, isRecent7), tags, j + 1, ymd, isRecent7)

\* for (const it of e.day.items), from item j on, tags being extractTags of
\* item j; Threw when extractTags throws
RECURSIVE statItemsFrom(_, _, _, _, _, _, _)
statItemsFrom(stat, items, j, ymd, isRecent7, aliases, tags) ==
    IF tags.threw THEN Threw
    ELSE IF j = Len(items) THEN Returned(statTags(stat, tags.v, 1, ymd, isRecent7))
    ELSE statItemsFrom(statTags(stat, tags.v, 1, ymd, isRecent7), items, j + 1, ymd,
                       isRecent7, aliases, extractTags(items[j + 1].text, aliases))

statItems(stat, items, ymd, isRecent7, aliases) ==
    IF items = <<>> THEN Returned(stat)
    ELSE statItemsFrom(stat, items, 1, ymd, isRecent7, aliases,
                       extractTags(items[1].text, aliases))

\* for (const e of entries), from entry i on, r being the Map after entry i
RECURSIVE statEntriesFrom(_, _, _, _, _)
statEntriesFrom(r, entries, i, recentSet, aliases) ==
    IF r.threw THEN Threw
    ELSE IF i = Len(entries) THEN r
    ELSE statEntriesFrom(statItems(r.v, entries[i + 1].day.items, entries[i + 1].ymd,
                                   entries[i + 1].ymd \in recentSet, aliases),
                         entries, i + 1, recentSet, aliases)

statEntries(entries, recentSet, aliases) ==
    statEntriesFrom(Returned(<<>>), entries, 0, recentSet, aliases)

TagSuggestion(tag, total, recent7, lastSeen, aliasKeys) ==
    [tag |-> tag, totalCount |-> total, recent7Count |-> recent7,
     lastSeenYmd |-> lastSeen,
     matchKeys |-> <<toLowerCase(trim(NFKC(tag)))>> \o aliasKeys]

\* the compare function of arr.sort: negative when a goes before b
compareSuggestions(a, b) ==
    LET ar == IF a.recent7Count > 0 THEN 1 ELSE 0
        br == IF b.recent7Count > 0 THEN 1 ELSE 0
    IN IF br # ar THEN br - ar
       ELSE IF b.recent7Count # a.recent7Count THEN b.recent7Count - a.recent7Count
       ELSE IF b.lastSeenYmd # a.lastSeenYmd THEN b.lastSeenYmd - a.lastSeenYmd
       ELSE IF b.totalCount # a.totalCount THEN b.totalCount - a.totalCount
       ELSE localeCompare(a.tag, b.tag)

\* Array.prototype.sort with that function (stable): x goes in before the
\* first element that must follow it
sortInsert(sorted, x) ==
    LET after == {i \in 1..Len(sorted) : compareSuggestions(sorted[i], x) > 0}
        at == IF after = {} THEN Len(sorted) + 1
              ELSE CHOOSE i \in after : \A j \in after : i <= j
    IN SubSeq(sorted, 1, at - 1) \o <<x>> \o SubSeq(sorted, at, Len(sorted))

RECURSIVE sortSuggestions(_, _, _)
sortSuggestions(arr, i, sorted) ==
    IF i > Len(arr) THEN sorted
    ELSE sortSuggestions(arr, i + 1, sortInsert(sorted, arr[i]))

\* the array made of stat's entries, sorted
rankStat(stat, aliases) ==
    sortSuggestions([i \in 1..Len(stat) |->
                        TagSuggestion(stat[i].tag, stat[i].total, stat[i].recent7,
                                      stat[i].lastSeen,
                                      invertAliases(aliases, stat[i].tag, 1))],
                    1, <<>>)

\* Returned(list), or Threw when a loop threw
suggestionsOf(stat, aliases) ==
    IF stat.threw THEN Threw ELSE Returned(rankStat(stat.v, aliases))

buildTagSuggestions(entries, aliases, today) ==
    suggestionsOf(statEntries(entries, lastNYmds(RecentDays, today), aliases), aliases)

\* The day of the model's clock, and the dates that hold records: the day 7
\* days ago (no longer recent), the day 6 days ago (the oldest recent one),
\* today.
Today == 10
SuggestDates == <<Today - RecentDays, Today - RecentDays + 1, Today>>

MaxItems == 2

\* item texts: one tag each, two tags, and a tag that names a member of
\* Object.prototype
ItemTexts ==
    { <<"#", "a">>, <<"#", "b", " ", "#", "a">>,
      <<"#", "c", "o", "n", "s", "t", "r", "u", "c", "t", "o", "r">> }

ItemLists(n) == UNION {[1..k -> [id : {"i"}, text : ItemTexts]] : k \in 0..n}

\* a date without a record
NoRecord == [t |-> "none"]

\* the scanned list for a choice of what each date holds: newest date first,
\* the dates without a record left out
EntriesOf(held) ==
    LET n == Len(SuggestDates)
        all == [k \in 1..n |-> [ymd |-> SuggestDates[n + 1 - k], held |-> held[n + 1 - k]]]
        with == SelectSeq(all, LAMBDA x : x.held # NoRecord)
    IN [k \in 1..Len(with) |->
           [ymd |-> with[k].ymd, day |-> [ymd |-> with[k].ymd, items |-> with[k].held.items]]]

EntryLists(d) ==
    {EntriesOf(held) :
        held \in [1..d -> {NoRecord} \cup {[t |-> "day", items |-> l] : l \in ItemLists(MaxItems)}]}

SuggestIdle ==
    [fn |-> "buildTagSuggestions", phase |-> "input", entries |-> <<>>,
     dict |-> <<>>, out |-> Returned(<<>>)]

InitSuggest ==
    /\ InitModules
    /\ hasIdle = TRUE
    /\ store = EmptyStorage
    /\ pure \in {[SuggestIdle EXCEPT !.entries = e, !.dict = d] :
                    e \in EntryLists(Len(SuggestDates)), d \in Dictionaries}

\* out = buildTagSuggestions(entries, aliases), the job of useTagSuggest
CallBuildTagSuggestions ==
    /\ pure.fn = "buildTagSuggestions"
    /\ pure.phase = "input"
    /\ pure' = [pure EXCEPT !.phase = "done",
                            !.out = buildTagSuggestions(pure.entries, pure.dict, Today)]
    /\ lastOp' = Plain("buildTagSuggestions")
    /\ PureOnly

NextSuggest == CallBuildTagSuggestions

SpecSuggest == InitSuggest /\ [][NextSuggest]_vars

(***************************************************************************)
(* lib/useTagSuggest.ts: the suggestions shown                             *)
(***************************************************************************)

SuggestLimit == 10

\* String.prototype.includes
includes(k, sub) ==
    \E i \in 0..(Len(k) - Len(sub)) : SubSeq(k, i + 1, i + Len(sub)) = sub

\* Array.prototype.slice(0, n)
sliceTo(seq, n) == SubSeq(seq, 1, IF Len(seq) < n THEN Len(seq) ELSE n)

suggestions_FilterAfterSlice(shouldShowSuggest, token, allSuggestions) ==
    LET tokenNorm == normalizeAliasKey(token)
    IN IF ~shouldShowSuggest THEN <<>>
       ELSE IF tokenNorm = <<>> THEN sliceTo(allSuggestions, SuggestLimit)
       ELSE SelectSeq(sliceTo(allSuggestions, SuggestLimit),
                      LAMBDA e : \E i \in 1..Len(e.matchKeys) :
                                    includes(e.matchKeys[i], tokenNorm))

\* the useMemo that computes `suggestions`; token is activeTag?.token ?? ""
suggestions(shouldShowSuggest, token, allSuggestions) ==
    LET tokenNorm == normalizeAliasKey(token)
    IN IF ~shouldShowSuggest THEN <<>>
       ELSE IF tokenNorm = <<>> THEN sliceTo(allSuggestions, SuggestLimit)
       ELSE sliceTo(SelectSeq(allSuggestions,
                              LAMBDA e : \E i \in 1..Len(e.matchKeys) :
                                            includes(e.matchKeys[i], tokenNorm)),
                    SuggestLimit)

MaxPool == 12

\* Tags of a ranked list, best first: "X" is the value of the alias key "c";
\* the others are tags used as typed.
PoolTags ==
    << <<"X">>, <<"a", "b">>, <<"b", "a">>, <<"b">>, <<"b", "b">>,
       <<"b", "a", "b">>, <<"a", "b", "b">>, <<"b", "b", "a">>, <<"a", "a", "b">>,
       <<"a", "b", "a">>, <<"b", "a", "a">>, <<"b", "b", "b">>, <<"a", "a">>,
       <<"a", "a", "a">> >>

\* entry n of the pool as buildTagSuggestions makes it: all seen today, the
\* earlier in the pool the more often
PoolEntry(n) ==
    TagSuggestion(PoolTags[n], Len(PoolTags) + 1 - n, Len(PoolTags) + 1 - n, Today,
                  IF PoolTags[n] = <<"X">> THEN << <<"c">> >> ELSE <<>>)

\* the ranked lists: the pool's first n entries, some of them left out
RECURSIVE RankedLists(_)
RankedLists(n) ==
    IF n = 0 THEN {<<>>}
    ELSE LET shorter == RankedLists(n - 1)
         IN shorter \cup {Append(l, PoolEntry(n)) : l \in shorter}

\* what getActiveTagToken gives as token: no white space, no "#"
RawTokens ==
    { <<>>, <<"a">>, <<"b">>, <<"A">>, <<"x">>, <<"c">>, <<"a", "b">>, <<"(">>,
      <<"b", "b", ".">> }

DisplayIdle ==
    [fn |-> "suggestions", phase |-> "input", all |-> <<>>, token |-> <<>>,
     show |-> TRUE, out |-> <<>>]

InitDisplay ==
    /\ InitModules
    /\ hasIdle = TRUE
    /\ store = EmptyStorage
    /\ pure \in {[DisplayIdle EXCEPT !.all = l, !.token = t, !.show = b] :
                    l \in RankedLists(MaxPool), t \in RawTokens, b \in BOOLEAN}

\* a render of useTagSuggest
RenderSuggestions ==
    /\ pure.fn = "suggestions"
    /\ pure.phase = "input"
    /\ pure' = [pure EXCEPT !.phase = "done",
                            !.out = suggestions(pure.show, pure.token, pure.all)]
    /\ lastOp' = Plain("suggestions")
    /\ PureOnly

NextDisplay == RenderSuggestions

SpecDisplay == InitDisplay /\ [][NextDisplay]_vars

(***************************************************************************)
(* lib/tags/active-token.ts and useTagSuggest's insertTag                  *)
(***************************************************************************)

\* String.prototype.lastIndexOf for one character: 0-based, -1 when absent
lastIndexOf(s, c) ==
    LET at == {i \in 1..Len(s) : s[i] = c}
    IN IF at = {} THEN -1 ELSE (CHOOSE i \in at : \A j \in at : j <= i) - 1

\* /\s/.test(s)
hasWhiteSpace(s) == \E i \in 1..Len(s) : s[i] \in WhiteSpace

NoActiveToken == [t |-> "null"]

ActiveToken(hashIndex, token) == [t |-> "token", hashIndex |-> hashIndex, token |-> token]

getActiveTagToken_NoPrevCheck(text, cursor) ==
    LET before == SubSeq(text, 1, cursor)
        hashIndex == lastIndexOf(before, "#")
        afterHash == SubSeq(before, hashIndex + 2, Len(before))
    IN IF hashIndex = -1 THEN NoActiveToken
       ELSE IF hasWhiteSpace(afterHash) THEN NoActiveToken
       ELSE ActiveToken(hashIndex, afterHash)

getActiveTagToken(text, cursor) ==
    LET before == SubSeq(text, 1, cursor)
        hashIndex == lastIndexOf(before, "#")
        afterHash == SubSeq(before, hashIndex + 2, Len(before))
    IN IF hashIndex = -1 THEN NoActiveToken
       ELSE IF hashIndex > 0 /\ before[hashIndex] \notin WhiteSpace THEN NoActiveToken
       ELSE IF hasWhiteSpace(afterHash) THEN NoActiveToken
       ELSE ActiveToken(hashIndex, afterHash)

\* insertTag's loop: while (end < text.length && !/\s/.test(text[end])) end++
RECURSIVE wordEnd(_, _)
wordEnd(text, end) ==
    IF end < Len(text) /\ text[end + 1] \notin WhiteSpace THEN wordEnd(text, end + 1) ELSE end

NotInserted == [done |-> FALSE, nextText |-> <<>>, nextCursor |-> 0]

insertTag_EndAtCursor(el, active, text, cursor, autoSpace, tag) ==
    IF ~el \/ active = NoActiveToken THEN NotInserted
    ELSE LET before == SubSeq(text, 1, active.hashIndex)
             after == SubSeq(text, cursor + 1, Len(text))
             needSpace == autoSpace /\ (after = <<>> \/ after[1] \notin WhiteSpace)
             inserted == <<"#">> \o tag \o (IF needSpace THEN <<" ">> ELSE <<>>)
         IN [done |-> TRUE, nextText |-> before \o inserted \o after,
             nextCursor |-> Len(before \o inserted)]

\* el: textareaRef.current is set; active: the hook's activeTag
insertTag(el, active, text, cursor, autoSpace, tag) ==
    IF ~el \/ active = NoActiveToken THEN NotInserted
    ELSE LET end == wordEnd(text, cursor)
             before == SubSeq(text, 1, active.hashIndex)
             after == SubSeq(text, end + 1, Len(text))
             needSpace == autoSpace /\ (after = <<>> \/ after[1] \notin WhiteSpace)
             inserted == <<"#">> \o tag \o (IF needSpace THEN <<" ">> ELSE <<>>)
         IN [done |-> TRUE, nextText |-> before \o inserted \o after,
             nextCursor |-> Len(before \o inserted)]

MaxInputLen == 4

InputAlphabet == {"#", " ", "a"}

\* "foo #he", and the same with a word typed after it
ExampleText == <<"f", "o", "o", " ", "#", "h", "e">>

InputTexts ==
    StringsUpTo(InputAlphabet, MaxInputLen)
        \cup {ExampleText, ExampleText \o <<"U+3000", "x">>}

\* 健康
ExampleTag == <<"U+5065", "U+5EB7">>

InsertedTags == {<<"a">>, ExampleTag}

NoTimer == -1

\* the composer: the textarea's value and selection, the hook's arguments
\* text and cursor, its activeTag, and the timer insertTag has set
InputIdle ==
    [fn |-> "useTagSuggest", phase |-> "input", text |-> <<>>, cursor |-> 0,
     autoSpace |-> TRUE, el |-> TRUE, active |-> NoActiveToken, tag |-> <<>>,
     out |-> NotInserted, timer |-> NoTimer, selection |-> 0]

InitInput ==
    /\ InitModules
    /\ hasIdle = TRUE
    /\ store = EmptyStorage
    /\ pure \in {[InputIdle EXCEPT !.text = t, !.cursor = c, !.selection = c,
                                   !.autoSpace = sp, !.el = el] :
                    t \in InputTexts, c \in 0..(MaxInputLen + 5), sp \in BOOLEAN,
                    el \in BOOLEAN}
    /\ pure.cursor <= Len(pure.text)

\* a render: activeTag = useMemo(() => getActiveTagToken(text, cursor))
RenderActiveTag ==
    /\ pure.fn = "useTagSuggest"
    /\ pure.phase = "input"
    /\ pure' = [pure EXCEPT !.phase = "rendered",
                            !.active = getActiveTagToken(pure.text, pure.cursor)]
    /\ lastOp' = Plain("getActiveTagToken")
    /\ PureOnly

\* a suggestion is picked: insertTag(tag), with setText(nextText) and the
\* zero-delay timer that will place the cursor
CallInsertTag(tag) ==
    /\ pure.fn = "useTagSuggest"
    /\ pure.phase = "rendered"
    /\ LET r == insertTag(pure.el, pure.active, pure.text, pure.cursor, pure.autoSpace, tag)
       IN pure' = [pure EXCEPT !.phase = "inserted",
                               !.tag = tag,
                               !.out = r,
                               !.timer = IF r.done THEN r.nextCursor ELSE NoTimer]
    /\ lastOp' = Plain("insertTag")
    /\ PureOnly

\* the textarea is unmounted before the timer runs
Unmount ==
    /\ pure.fn = "useTagSuggest"
    /\ pure.phase = "inserted"
    /\ pure.el
    /\ pure' = [pure EXCEPT !.el = FALSE]
    /\ lastOp' = Plain("unmount")
    /\ PureOnly

\* insertTag's timer: el2.focus(); el2.setSelectionRange(nextCursor, nextCursor)
RunCursorTimer ==
    /\ pure.fn = "useTagSuggest"
    /\ pure.phase = "inserted"
    /\ pure.timer # NoTimer
    /\ pure' = [pure EXCEPT !.phase = "placed",
                            !.timer = NoTimer,
                            !.selection = IF pure.el THEN pure.timer ELSE @]
    /\ lastOp' = Plain("cursorTimer")
    /\ PureOnly

NextInput ==
    \/ RenderActiveTag
    \/ \E tag \in InsertedTags : CallInsertTag(tag)
    \/ Unmount
    \/ RunCursorTimer

SpecInput == InitInput /\ [][NextInput]_vars

(***************************************************************************)
(* lib/client-scheduler.ts: runIdle under any caller                       *)
(***************************************************************************)

MaxCalls == 2
MaxCancels == 2

\* one call of runIdle(cb): the handle the browser gave (0: no window, the
\* CancelFn is empty), how often cb has run, how often the CancelFn was
\* invoked, and whether it was invoked before cb had run
IdleCall(id) == [id |-> id, runs |-> 0, cancels |-> 0, cancelledFirst |-> FALSE]

\* a caller of runIdle: its calls so far, the handle the browser gives next
\* (handles are never given twice), and the step taken last
IdleClient ==
    [fn |-> "runIdle", phase |-> "client", window |-> TRUE, nextId |-> 1,
     calls |-> <<>>, op |-> [name |-> "init", call |-> 0]]

InitIdle ==
    /\ InitModules
    /\ hasIdle \in BOOLEAN
    /\ store = EmptyStorage
    /\ pure \in {[IdleClient EXCEPT !.window = w] : w \in BOOLEAN}

IdleFrame ==
    UNCHANGED <<now, hasIdle, store, events, winListeners, mutationListeners,
                daysStore, daysRefresh, aliasesStore, handles, saved>>

\* cancel = runIdle(cb)
ClientRunIdle ==
    /\ pure.fn = "runIdle"
    /\ Len(pure.calls) < MaxCalls
    /\ IF pure.window
       THEN /\ tasks' = runIdleAt(tasks, hasIdle, "client", FALSE, pure.nextId)
            /\ pure' = [pure EXCEPT !.calls = Append(@, IdleCall(pure.nextId)),
                                    !.nextId = @ + 1,
                                    !.op = [name |-> "runIdle", call |-> Len(pure.calls) + 1]]
       ELSE /\ tasks' = tasks
            /\ pure' = [pure EXCEPT !.calls = Append(@, IdleCall(0)),
                                    !.op = [name |-> "runIdle", call |-> Len(pure.calls) + 1]]
    /\ lastOp' = Plain("runIdle")
    /\ IdleFrame

\* the CancelFn of call i is invoked
ClientCancel(i) ==
    /\ pure.fn = "runIdle"
    /\ i \in 1..Len(pure.calls)
    /\ pure.calls[i].cancels < MaxCancels
    /\ tasks' = cancel(tasks, pure.calls[i].id)
    /\ pure' = [pure EXCEPT !.calls[i].cancels = @ + 1,
                            !.calls[i].cancelledFirst = @ \/ pure.calls[i].runs = 0,
                            !.op = [name |-> "cancel", call |-> i]]
    /\ lastOp' = Plain("cancel")
    /\ IdleFrame

\* the browser runs an idle callback or an expired timer
BrowserRunsCallback(t) ==
    /\ pure.fn = "runIdle"
    /\ t \in tasks
    /\ t.owner = "client"
    /\ tasks' = tasks \ {t}
    /\ pure' = [pure EXCEPT !.calls = [i \in 1..Len(@) |->
                                          IF @[i].id = t.id
                                          THEN [@[i] EXCEPT !.runs = @ + 1]
                                          ELSE @[i]],
                            !.op = [name |-> "cb", call |-> 0]]
    /\ lastOp' = Plain("cb")
    /\ IdleFrame

NextIdle ==
    \/ ClientRunIdle
    \/ \E i \in 1..MaxCalls : ClientCancel(i)
    \/ \E t \in tasks : BrowserRunsCallback(t)

SpecIdle == InitIdle /\ [][NextIdle]_vars

(***************************************************************************)
(* lib/useTagSuggest.ts over lib/useDaysData.ts and lib/useTagAliases.ts:  *)
(* one mounted composer.  A render and the effects React commits after it  *)
(* are one step; shouldShowSuggest is an input of the render.              *)
(***************************************************************************)

HookListener == "L1"

\* the UTF-16 code unit of a character of an alias key
charCode(c) ==
    CASE c = "#" -> 35
      [] c = "a" -> 97
      [] c = "d" -> 100
      [] c = "e" -> 101
      [] c = "h" -> 104
      [] c = "k" -> 107
      [] c = "l" -> 108
      [] c = "o" -> 111
      [] c = "r" -> 114
      [] c = "s" -> 115
      [] c = "t" -> 116
      [] c = "u" -> 117
      [] c = "w" -> 119
      [] c = "x" -> 120
      [] c = "y" -> 121
      [] c = "U+3046" -> 12358
      [] c = "U+304D" -> 12365
      [] c = "U+3051" -> 12369
      [] c = "U+3053" -> 12371
      [] c = "U+3058" -> 12376
      [] c = "U+3079" -> 12409
      [] c = "U+3080" -> 12416
      [] c = "U+3087" -> 12423
      [] c = "U+3093" -> 12435
      [] OTHER -> 0

\* a < b on JS strings
RECURSIVE lessThan(_, _)
lessThan(a, b) ==
    IF b = <<>> THEN FALSE
    ELSE IF a = <<>> THEN TRUE
    ELSE IF charCode(Head(a)) # charCode(Head(b))
    THEN charCode(Head(a)) < charCode(Head(b))
    ELSE lessThan(Tail(a), Tail(b))

\* `${len}:${min}:${max}` as its three parts
getAliasesSig(aliases) ==
    IF Len(aliases) = 0
    THEN [len |-> 0, min |-> <<".", ".">>, max |-> <<".", ".">>]
    ELSE [len |-> Len(aliases),
          min |-> CHOOSE k \in Keys(aliases) : \A q \in Keys(aliases) : ~lessThan(q, k),
          max |-> CHOOSE k \in Keys(aliases) : \A q \in Keys(aliases) : ~lessThan(k, q)]

\* "none", or `${entries.length}:${entries[0]?.ymd ?? ""}` as its two parts
entriesSig(entries) ==
    IF entries = Null THEN [len |-> -1, top |-> "none"]
    ELSE [len |-> Len(entries.val),
          top |-> IF Len(entries.val) > 0 THEN entries.val[1].ymd ELSE ""]

wantKey(entries, aliases) ==
    [entries |-> entriesSig(entries), aliases |-> getAliasesSig(aliases.val)]

\* useState("") of computedKey
NoComputedKey == [entries |-> [len |-> -1, top |-> ""], aliases |-> getAliasesSig(<<>>)]

isComputing_KeyOnly(show, isDaysLoading, isAliasesLoading, entries, computedKey, want) ==
    show /\ computedKey # want

isComputing(show, isDaysLoading, isAliasesLoading, entries, computedKey, want) ==
    IF ~show THEN FALSE
    ELSE IF isDaysLoading \/ isAliasesLoading THEN TRUE
    ELSE IF entries = Null THEN TRUE
    ELSE computedKey # want

\* what the idle job closes over; the list it builds stands for
\* buildTagSuggestions(entries, aliases) of these two values
NoJob == [entries |-> Null, aliases |-> Null, want |-> NoComputedKey]

Built(job) == <<[entries |-> job.entries.val, aliases |-> job.aliases.val]>>

\* the refresh() calls made while the UI is open that a behaviour holds
MaxRefreshes == 1

\* what the suggestion effect did at the last commit: whether its clean-up
\* cancelled a pending job, whether its body handed a job to runIdle
NoEffect == [cancelled |-> FALSE, scheduled |-> FALSE]

\* the composer before it mounts
HookIdle ==
    [fn |-> "useTagSuggest", mounted |-> FALSE, show |-> FALSE,
     entries |-> Null, aliases |-> Null, isAliasesLoading |-> FALSE,
     allSuggestions |-> <<>>, computedKey |-> NoComputedKey,
     wantKey |-> NoComputedKey, isComputing |-> FALSE, suggestions |-> <<>>,
     suggestJobCancelRef |-> 0, job |-> NoJob, effect |-> NoEffect,
     refreshes |-> 0]

\* readTagAliasesFromStorage builds a new object at every call
FreshFallback(ref) == IF ref = -2 THEN -3 ELSE -2

\* the values one render of useTagSuggest computes, h being the state and
\* the memoized values the previous render left
renderHook(h, ds, as, storage, show) ==
    LET entries == IF ds.loaded THEN ds.cache ELSE Null
        aliases == IF as.loaded THEN as.cache
                   ELSE [ref |-> FreshFallback(h.aliases.ref), val |-> loadTagAliases(storage)]
        loading == IF ~h.mounted \/ h.show # show THEN show /\ ~as.loaded
                   ELSE h.isAliasesLoading
    IN [h EXCEPT
          !.mounted = TRUE,
          !.show = show,
          !.entries = entries,
          !.aliases = aliases,
          !.isAliasesLoading = loading,
          !.wantKey = wantKey(entries, aliases),
          !.isComputing = isComputing(show, entries = Null, loading, entries,
                                      h.computedKey, wantKey(entries, aliases)),
          !.suggestions = IF ~show THEN <<>> ELSE h.allSuggestions,
          !.effect = NoEffect]

\* The modules and the browser a commit acts on.
World(h) ==
    [h |-> h, ds |-> daysStore, dr |-> daysRefresh, as |-> aliasesStore,
     tasks |-> tasks, win |-> winListeners, mut |-> mutationListeners,
     handles |-> handles, load |-> NoLoad(daysStore)]

\* subscribeDays / subscribeTagAliases, as useSyncExternalStore calls them
subscribeStore(w, m, l) ==
    LET first == (IF m = "days" THEN w.ds.refCount ELSE w.as.refCount) + 1 = 1
    IN [w EXCEPT
          !.ds = IF m = "days"
                 THEN [@ EXCEPT !.listeners = @ \cup {l}, !.refCount = @ + 1] ELSE @,
          !.as = IF m = "aliases"
                 THEN [@ EXCEPT !.listeners = @ \cup {l}, !.refCount = @ + 1] ELSE @,
          !.win = IF first THEN @ \cup {m} ELSE @,
          !.mut = IF first THEN @ \cup {m} ELSE @,
          !.handles[m][l] = @ + 1]

unsubscribeStore(w, m, l) ==
    LET rc == IF (IF m = "days" THEN w.ds.refCount ELSE w.as.refCount) - 1 > 0
              THEN (IF m = "days" THEN w.ds.refCount ELSE w.as.refCount) - 1 ELSE 0
    IN IF w.handles[m][l] = 0 THEN w
       ELSE [w EXCEPT
               !.ds = IF m = "days"
                      THEN [@ EXCEPT !.listeners = @ \ {l}, !.refCount = rc] ELSE @,
               !.as = IF m = "aliases"
                      THEN [@ EXCEPT !.listeners = @ \ {l}, !.refCount = rc] ELSE @,
               !.win = IF rc = 0 THEN @ \ {m} ELSE @,
               !.mut = IF rc = 0 THEN @ \ {m} ELSE @,
               !.handles[m][l] = @ - 1]

\* useSyncExternalStore: the day store is subscribed at mount; the alias
\* store is subscribed while enabled (subscribeNoop otherwise)
commitSubscriptions(w, p) ==
    LET d == IF ~p.mounted THEN subscribeStore(w, "days", HookListener) ELSE w
        u == IF p.mounted /\ p.show /\ ~w.h.show
             THEN unsubscribeStore(d, "aliases", HookListener) ELSE d
    IN IF w.h.show /\ (~p.mounted \/ ~p.show)
       THEN subscribeStore(u, "aliases", HookListener) ELSE u

\* requestRefresh of useDaysData
useDaysData_requestRefresh_Always(w, enabled, force, immediate) ==
    LET r == requestDaysRefresh(w.dr, w.ds, store, w.tasks, hasIdle, now,
                                force, immediate, ThrottleMsDefault, {w.h.entries.ref})
    IN [w EXCEPT !.dr = r.dr, !.tasks = r.tasks, !.ds = r.load.st, !.load = r.load]

useDaysData_requestRefresh(w, enabled, force, immediate) ==
    IF ~enabled THEN w
    ELSE LET r == requestDaysRefresh(w.dr, w.ds, store, w.tasks, hasIdle, now,
                                     force, immediate, ThrottleMsDefault, {w.h.entries.ref})
         IN [w EXCEPT !.dr = r.dr, !.tasks = r.tasks, !.ds = r.load.st, !.load = r.load]

\* requestRefresh of useTagAliases
useTagAliases_requestRefresh(w, enabled, force, immediate) ==
    IF ~enabled THEN w
    ELSE LET r == requestTagAliasesRefresh(w.as, w.tasks, hasIdle, now, force,
                                           immediate, ThrottleMsDefault)
         IN [w EXCEPT !.as = r.as, !.tasks = r.tasks]

\* the mount effects of the two hooks: they run when enabled changes
commitRefreshOnMount(w, p) ==
    IF p.mounted /\ p.show = w.h.show THEN w
    ELSE useTagAliases_requestRefresh(
             useDaysData_requestRefresh(w, w.h.show, FALSE, FALSE),
             w.h.show, FALSE, TRUE)

depsChanged_KeyOnly(p, h) == ~p.mounted \/ p.show # h.show \/ p.wantKey # h.wantKey

\* the dependencies of the suggestion effect, compared by Object.is
depsChanged(p, h) ==
    \/ ~p.mounted
    \/ p.show # h.show
    \/ p.entries.ref # h.entries.ref
    \/ p.aliases.ref # h.aliases.ref
    \/ p.wantKey # h.wantKey

\* the clean-up the previous run of the suggestion effect returned
suggestCleanup_KeepJob(w) ==
    [w EXCEPT !.h.suggestJobCancelRef = 0]

suggestCleanup(w) ==
    [w EXCEPT !.tasks = cancel(@, w.h.suggestJobCancelRef),
              !.h.suggestJobCancelRef = 0,
              !.h.job = IF w.h.suggestJobCancelRef # 0 THEN NoJob ELSE @,
              !.h.effect.cancelled = w.h.suggestJobCancelRef # 0]

\* the body of the suggestion effect
suggestEffect(w) ==
    IF ~w.h.show \/ w.h.entries = Null THEN w
    ELSE [w EXCEPT
            !.tasks = runIdle(cancel(@, w.h.suggestJobCancelRef), hasIdle, "suggest", FALSE),
            !.h.suggestJobCancelRef = FreshTask(cancel(w.tasks, w.h.suggestJobCancelRef)),
            !.h.job = [entries |-> w.h.entries, aliases |-> w.h.aliases,
                       want |-> w.h.wantKey],
            !.h.effect.scheduled = TRUE]

commitSuggestEffect(w, p) ==
    IF ~depsChanged(p, w.h) THEN w ELSE suggestEffect(suggestCleanup(w))

\* the callbacks of the suggestion effect the browser holds
SuggestJobs == {t \in tasks : t.owner = "suggest"}

\* the callbacks a request to either coordinator would add now
RequestAdds(force) ==
    (IF (force \/ now - daysRefresh.lastRequestedAt >= ThrottleMsDefault)
        /\ daysRefresh.jobCancel = 0 THEN 1 ELSE 0)
    + (IF (force \/ now - aliasesStore.refreshGateMs >= ThrottleMsDefault)
          /\ aliasesStore.scheduledCancel = 0 THEN 1 ELSE 0)

\* a step may leave at most MaxTasks + 1 callbacks pending
Room(n) == Cardinality(tasks \ SuggestJobs) + n <= MaxTasks

Commit(w, name) ==
    /\ pure' = w.h
    /\ daysStore' = w.ds
    /\ daysRefresh' = w.dr
    /\ aliasesStore' = w.as
    /\ tasks' = w.tasks
    /\ winListeners' = w.win
    /\ mutationListeners' = w.mut
    /\ handles' = w.handles
    /\ lastOp' = Op(name, FALSE, FALSE, NoKey, w.load, Notified(daysStore.listeners, w.load))
    /\ UNCHANGED <<now, hasIdle, store, events, saved>>

\* React renders the composer and commits its effects.
HookRender(show) ==
    /\ show /\ (~pure.mounted \/ ~pure.show) => Room(RequestAdds(FALSE))
    /\ Commit(commitSuggestEffect(
                  commitRefreshOnMount(
                      commitSubscriptions(
                          World(renderHook(pure, daysStore, aliasesStore, store, show)),
                          pure),
                      pure),
                  pure),
              "render")

\* The composer unmounts: the clean-ups of its effects and subscriptions.
HookUnmount ==
    /\ pure.mounted
    /\ Commit([unsubscribeStore(unsubscribeStore(suggestCleanup(World(pure)),
                                                 "aliases", HookListener),
                                "days", HookListener)
               EXCEPT !.h = [HookIdle EXCEPT !.refreshes = pure.refreshes]],
              "unmount")

\* refresh() of the engine, as the last render built it
HookRefresh ==
    /\ pure.mounted
    /\ pure.show => Room(RequestAdds(TRUE)) /\ pure.refreshes < MaxRefreshes
    /\ Commit(useTagAliases_requestRefresh(
                  useDaysData_requestRefresh(
                      World([pure EXCEPT !.refreshes = IF pure.show THEN @ + 1 ELSE @]),
                      pure.show, TRUE, FALSE),
                  pure.show, TRUE, FALSE),
              "refresh")

\* The browser runs the callback the suggestion effect handed to runIdle.
RunSuggestJob(t) ==
    /\ t \in SuggestJobs
    /\ tasks' = tasks \ {t}
    /\ pure' = IF pure.mounted
               THEN [pure EXCEPT !.suggestJobCancelRef = 0,
                                 !.allSuggestions = Built(pure.job),
                                 !.computedKey = pure.job.want,
                                 !.job = NoJob]
               ELSE pure
    /\ lastOp' = Op("suggestJob", FALSE, FALSE, NoKey, Silent, {})
    /\ UNCHANGED <<now, hasIdle, store, events, winListeners, mutationListeners,
                   daysStore, daysRefresh, aliasesStore, handles, saved>>

InitHook ==
    /\ InitModules
    /\ hasIdle = TRUE
    /\ store = EmptyStorage
    /\ pure = HookIdle

\* The composer with both caches under it, at one instant of the clock; other
\* code of the tab saves days.
NextHook ==
    \/ \E show \in BOOLEAN : HookRender(show)
    \/ HookUnmount
    \/ HookRefresh
    \/ \E t \in tasks : RunSuggestJob(t)
    \/ \E t \in tasks : RunDaysJob(t)
    \/ \E t \in tasks : RunAliasesJob(t)
    \/ \E y \in {Ymds[1]} : SaveDay(y, <<Item1>>)

SpecHook == InitHook /\ [][NextHook]_vars

\* The suggestion UI stays open from its first opening: no render closes it
\* and it is not unmounted.
NextHookOpen ==
    \/ HookRender(TRUE)
    \/ HookRefresh
    \/ \E t \in tasks : RunSuggestJob(t)
    \/ \E t \in tasks : RunDaysJob(t)
    \/ \E t \in tasks : RunAliasesJob(t)
    \/ \E items \in {<<>>, <<Item1>>} : SaveDay(Ymds[1], items)

SpecHookOpen == InitHook /\ [][NextHookOpen]_vars

(***************************************************************************)
(* days-refresh under a client that keeps requesting while other tabs and  *)
(* this tab write days                                                     *)
(***************************************************************************)

\* joined: a request has been coalesced into the pending job; force: one of
\* the coalesced requests carried force
NoneJoined == [fn |-> "requestDaysRefresh", joined |-> FALSE, force |-> FALSE]

\* requestDaysRefresh({force}) of some component
ClientRequestsDays(force) ==
    LET r == requestDaysRefresh(daysRefresh, daysStore, store, tasks, hasIdle, now,
                                force, FALSE, ThrottleMsDefault, LiveRefs)
        passes == force \/ now - daysRefresh.lastRequestedAt >= ThrottleMsDefault
    IN /\ Cardinality(r.tasks) <= MaxTasks
       /\ daysRefresh' = r.dr
       /\ tasks' = r.tasks
       /\ daysStore' = r.load.st
       /\ pure' = IF ~passes THEN pure
                  ELSE IF daysRefresh.jobCancel = 0 THEN NoneJoined
                  ELSE [pure EXCEPT !.joined = TRUE, !.force = @ \/ force]
       /\ lastOp' = Op("requestDaysRefresh", force, FALSE, NoKey, r.load,
                       Notified(daysStore.listeners, r.load))
       /\ UNCHANGED <<now, hasIdle, store, events, winListeners, mutationListeners,
                      aliasesStore, handles, saved>>

InitCoalesce ==
    /\ InitModules
    /\ hasIdle \in BOOLEAN
    /\ store = EmptyStorage
    /\ pure = NoneJoined

NextCoalesce ==
    \/ Tick
    \/ \E l \in Listeners : SubscribeDays(l)
    \/ \E v \in DayRaws(dayKey(Ymds[1])) \cup {Absent} : OtherTabSetsDay(dayKey(Ymds[1]), v)
    \/ \E k \in events : StorageEvent(k)
    \/ SaveDay(Ymds[1], <<Item1>>)
    \/ \E f \in BOOLEAN : ClientRequestsDays(f)
    \/ \E t \in tasks : RunDaysJob(t)

SpecCoalesce == InitCoalesce /\ [][NextCoalesce]_vars

\* This tab saves days, into a storage that may be full, while components
\* subscribe to both caches and the day cache is read.
NextSaveDay ==
    \/ \E l \in Listeners : SubscribeDays(l)
    \/ \E l \in Listeners : UnsubscribeDays(l)
    \/ \E l \in Listeners : SubscribeAliases(l)
    \/ \E f \in BOOLEAN : CallLoadDaysIfNeeded(f)
    \/ \E y \in {Ymds[1], Ymds[2], "2024-1-1"} : \E q \in 0..2 : SaveDayQuota(y, <<Item1>>, q)

SpecSaveDay == Init /\ [][NextSaveDay]_vars

\* what another tab may leave under the dictionary key: two dictionaries that
\* differ in one value, and one of them with its keys in the other order
ReloadRaws ==
    AliasRaws
    \cup {DictJson(<< << <<"a">>, <<"x">> >>, << <<"b">>, <<"y">> >> >>),
          DictJson(<< << <<"b">>, <<"y">> >>, << <<"a">>, <<"x">> >> >>),
          DictJson(<< << <<"a">>, <<"x">> >>, << <<"b">>, <<"x">> >> >>)}

\* The alias cache read with and without force while another tab rewrites
\* the dictionary.
NextAliasReload ==
    \/ \E v \in ReloadRaws : OtherTabSetsAliases(v)
    \/ \E k \in events : StorageEvent(k)
    \/ \E l \in Listeners : SubscribeAliases(l)
    \/ \E f \in BOOLEAN : CallLoadTagAliasesIfNeeded(f)

SpecAliasReload == Init /\ [][NextAliasReload]_vars

\* what the dictionary key may hold: nothing, text that is no JSON object, an
\* empty object, entries that normalize to nothing, entries that normalize
\* to others, and the key the editor stores for "###a" (rowsToAliases
\* normalizes once)
LoadRaws ==
    {Absent, Malformed, DictJson(<<>>),
     DictJson(<< << <<"(">>, <<"x">> >>, << <<"a">>, <<" ">> >> >>),
     DictJson(<< << <<"A">>, <<"x", " ">> >> >>),
     DictJson(<< << <<"#", "#", "a">>, <<"x">> >> >>)}

\* The alias cache read while the stored dictionary takes every shape.
NextAliasLoad ==
    \/ \E v \in LoadRaws : OtherTabSetsAliases(v)
    \/ \E k \in events : StorageEvent(k)
    \/ \E l \in Listeners : SubscribeAliases(l)
    \/ \E f \in BOOLEAN : CallLoadTagAliasesIfNeeded(f)

SpecAliasLoad == Init /\ [][NextAliasLoad]_vars

\* "storage" events of every kind of key reaching the alias cache
NextAliasEvents ==
    \/ \E k \in DayKeys : \E v \in DayRaws(k) : OtherTabSetsDay(k, v)
    \/ OtherTabSetsDay(META_UPDATED_AT_KEY, Stamp(now))
    \/ \E v \in ReloadRaws : OtherTabSetsAliases(v)
    \/ OtherTabSetsOther
    \/ \E k \in events : StorageEvent(k)
    \/ \E l \in Listeners : SubscribeAliases(l)
    \/ \E l \in Listeners : UnsubscribeAliases(l)
    \/ \E f \in BOOLEAN : CallLoadTagAliasesIfNeeded(f)

SpecAliasEvents == Init /\ [][NextAliasEvents]_vars

\* The day cache with no subscriber, under writers that leave the last-write
\* key alone: what the cache learns, it learns from the keys of the storage.
NextKeyStats ==
    \/ \E k \in DayKeys : \E v \in DayRaws(k) \cup {Absent} : OtherTabSetsDay(k, v)
    \/ \E k \in events : StorageEvent(k)
    \/ \E f \in BOOLEAN : CallLoadDaysIfNeeded(f)

SpecKeyStats == Init /\ [][NextKeyStats]_vars

(***************************************************************************)
(* Properties of the Day-Entries Cache                                     *)
(***************************************************************************)

\* the steps that are a call of loadDaysIfNeeded or refreshDaysNow
DaysLoadNames == {"loadDaysIfNeeded", "refreshDaysNow"}

\* C1: getDaysSnapshot is null in every state before the first scan; a scan
\* of a storage without day records leaves loaded = true and the empty list
\* as the snapshot; a snapshot that is not null never becomes null again.
C1_NotLoadedUntilFirstScan ==
    /\ getDaysSnapshot = Null
    /\ [][/\ (getDaysSnapshot = Null /\ ~lastOp'.scanned) => getDaysSnapshot' = Null
          /\ (lastOp'.scanned /\ scanDaysFromStorage(store') = <<>>)
                => (daysStore'.loaded /\ getDaysSnapshot' = EMPTY_ENTRIES)
          /\ getDaysSnapshot # Null => getDaysSnapshot' # Null]_vars

\* a scan of the empty storage has just loaded the cache
C1_Witness ==
    /\ lastOp.name \in DaysLoadNames
    /\ lastOp.scanned
    /\ scanDaysFromStorage(store) = <<>>
    /\ getDaysSnapshot = EMPTY_ENTRIES

ForcedRefresh(op) == op.name \in {"loadDaysIfNeeded", "refreshDaysNow"} /\ op.force

\* C2: of two forced refreshes that follow each other with nothing in
\* between, the second returns and leaves cached the list object of the
\* first, and notifies nobody.
C2_ForcedRefreshKeepsReference ==
    [][(ForcedRefresh(lastOp) /\ ForcedRefresh(lastOp'))
          => /\ lastOp'.ret.ref = lastOp.ret.ref
             /\ daysStore'.cache.ref = daysStore.cache.ref
             /\ ~lastOp'.emitted]_vars

DayOrMetaKey(k) == k = META_UPDATED_AT_KEY \/ k[1] = DAY_KEY_PREFIX

\* C4: with a subscriber attached, a storage event for a day key or the
\* last-write key sets dirty; dirty stays set until a scan; and a
\* loadDaysIfNeeded called while dirty is set, forced or not, scans and
\* returns and caches the content of the storage at that moment.
C4_StorageEventForcesRescan ==
    [][/\ (lastOp'.name = "storageEvent" /\ DayOrMetaKey(lastOp'.key)
            /\ daysStore.refCount >= 1) => daysStore'.dirty
       /\ (daysStore.dirty /\ ~lastOp'.scanned) => daysStore'.dirty
       /\ (daysStore.dirty /\ lastOp'.name \in DaysLoadNames)
             => /\ lastOp'.scanned
                /\ lastOp'.ret.val = scanDaysFromStorage(store')
                /\ daysStore'.cache.val = scanDaysFromStorage(store')]_vars

\* A storage event has marked a loaded cache dirty whose fingerprint (stamp,
\* key count, newest date) still matches the storage while its list does not.
C4_Witness ==
    /\ lastOp.name = "storageEvent"
    /\ lastOp.key \in DayKeys
    /\ daysStore.refCount >= 1
    /\ daysStore.loaded
    /\ daysStore.dirty
    /\ readStamp(store) = daysStore.stamp
    /\ computeKeyStats(store).count = daysStore.keyCount
    /\ computeKeyStats(store).max = daysStore.maxYmd
    /\ daysStore.cache.val # scanDaysFromStorage(store)

\* the callbacks of days-refresh the browser holds
DaysJobs == {t \in tasks : t.owner = "days"}

DaysThrottled(force) == ~force /\ now - daysRefresh.lastRequestedAt < ThrottleMsDefault

NotifyNames == {"saveTagAliasesAndNotify", "resetTagAliasesAndNotify"}

AliasJobs == {t \in tasks : t.owner \in {"aliasesIdle", "aliasesTimer"}}

\* C7: once the callbacks pending after saveTagAliasesAndNotify(d) have run,
\* d not empty and nothing written since, the snapshot is d; and the step in
\* which the cache takes a new dictionary notifies every subscriber.
C7_SavedDictionaryReachesSnapshot ==
    /\ []((saved.held /\ saved.d # <<>> /\ AliasJobs = {})
            => /\ getTagAliasesSnapshot # Null
               /\ AsMap(getTagAliasesSnapshot.val) = AsMap(saved.d))
    /\ [][(aliasesStore.loaded /\ AsMap(aliasesStore'.cache.val) # AsMap(aliasesStore.cache.val))
            => lastOp'.notified = aliasesStore.listeners]_vars

\* C8: after a save of rows that normalize to no entry and the reload that
\* follows it, the value stored under the dictionary key and the cached
\* dictionary are both the default set, as after a reset.
C8_EmptySaveIsReset ==
    (saved.held /\ saved.d = <<>> /\ aliasesStore.loaded /\ ~aliasesStore.dirty)
        => /\ AsMap(aliasesStore.cache.val) = AsMap(DEFAULT_TAG_ALIASES)
           /\ store[TAG_ALIASES_KEY] = DictJson(DEFAULT_TAG_ALIASES)

(***************************************************************************)
(* Properties of the pure functions                                        *)
(***************************************************************************)

\* C9: normalizeAliasKey(normalizeAliasKey(s)) = normalizeAliasKey(s) for
\* every string s.
C9_NormalizeAliasKeyIdempotent ==
    (pure.fn = "normalizeAliasKey" /\ pure.phase = "twice") => pure.k2 = pure.k1

TokenChar(c) == c \notin WhiteSpace /\ c # "#"

\* the positions of the "#" that start a token of /#([^\s#]+)/g
TokenStarts(text) ==
    {i \in 1..Len(text) : text[i] = "#" /\ i < Len(text) /\ TokenChar(text[i + 1])}

\* the token that starts after the "#" at i: the longest run of token characters
TokenAt(text, i) ==
    LET last == CHOOSE j \in (i + 1)..Len(text) :
                    /\ \A k \in (i + 1)..j : TokenChar(text[k])
                    /\ j = Len(text) \/ ~TokenChar(text[j + 1])
    IN SubSeq(text, i + 1, last)

\* the canonical tag of a token: the dictionary's value, width-normalized and
\* trimmed, where the token's key is a key of the dictionary, else the key
CanonicalTag(token, dict) ==
    LET k == normalizeAliasKey(stripTrailing(stripLeading(token, OpenBrackets), ClosePunct))
    IN IF k \in Keys(dict) THEN trim(NFKC(Get(dict, k))) ELSE k

CanonicalTags(text, dict) ==
    {CanonicalTag(TokenAt(text, i), dict) : i \in TokenStarts(text)} \ {<<>>}

\* C10: for every text and dictionary extractTags returns a list whose
\* elements are exactly the canonical tags of the text's tokens, each once.
C10_ExtractTagsIsCanonicalSet ==
    (pure.fn = "extractTags" /\ pure.phase = "done")
        => /\ ~pure.out.threw
           /\ {pure.out.v[i] : i \in 1..Len(pure.out.v)} = CanonicalTags(pure.s, pure.dict)
           /\ Len(pure.out.v) = Cardinality(CanonicalTags(pure.s, pure.dict))

(***************************************************************************)
(* Properties of the tag suggestions                                       *)
(***************************************************************************)

\* the <<date, item>> places of the entries where a canonical tag occurs
Occurrences(tag, entries, dict) ==
    {<<i, j>> \in (1..Len(entries)) \X (1..MaxItems + 1) :
        /\ j <= Len(entries[i].day.items)
        /\ tag \in CanonicalTags(entries[i].day.items[j].text, dict)}

AllCanonicalTags(entries, dict) ==
    UNION {CanonicalTags(entries[i].day.items[j].text, dict) :
             <<i, j>> \in {q \in (1..Len(entries)) \X (1..MaxItems + 1) :
                              q[2] <= Len(entries[q[1]].day.items)}}

RecentOccurrences(tag, entries, dict) ==
    {o \in Occurrences(tag, entries, dict) :
        entries[o[1]].ymd \in lastNYmds(RecentDays, Today)}

LastSeen(tag, entries, dict) ==
    LET dates == {entries[o[1]].ymd : o \in Occurrences(tag, entries, dict)}
    IN CHOOSE d \in dates : \A q \in dates : q <= d

\* a goes before b in the ranking: recent first, then more recent
\* occurrences, then seen later, then more occurrences, then the name
RankedBefore(a, b, entries, dict) ==
    LET ra == Cardinality(RecentOccurrences(a, entries, dict))
        rb == Cardinality(RecentOccurrences(b, entries, dict))
        la == LastSeen(a, entries, dict)
        lb == LastSeen(b, entries, dict)
        ta == Cardinality(Occurrences(a, entries, dict))
        tb == Cardinality(Occurrences(b, entries, dict))
    IN IF (ra > 0) # (rb > 0) THEN ra > 0
       ELSE IF ra # rb THEN ra > rb
       ELSE IF la # lb THEN la > lb
       ELSE IF ta # tb THEN ta > tb
       ELSE localeCompare(a, b) < 0

\* C11: buildTagSuggestions returns a list with one entry for each canonical
\* tag of the entries, in the order: tags with an occurrence on one of the 7
\* dates ending today first, then by the number of those occurrences
\* (descending), the last date seen (descending), the number of occurrences
\* (descending), the name (ascending).
C11_SuggestionsRanked ==
    (pure.fn = "buildTagSuggestions" /\ pure.phase = "done")
        => /\ ~pure.out.threw
           /\ {pure.out.v[i].tag : i \in 1..Len(pure.out.v)}
                 = AllCanonicalTags(pure.entries, pure.dict)
           /\ Len(pure.out.v) = Cardinality(AllCanonicalTags(pure.entries, pure.dict))
           /\ \A i, j \in 1..Len(pure.out.v) :
                 i < j => RankedBefore(pure.out.v[i].tag, pure.out.v[j].tag,
                                       pure.entries, pure.dict)

\* the k-th smallest element of a set of indices
KthOf(set, k) == CHOOSE i \in set : Cardinality({j \in set : j < i}) = k - 1

\* the first SuggestLimit entries of list at the indices in set, in list order
FirstOfThose(list, set) ==
    [k \in 1..(IF Cardinality(set) < SuggestLimit THEN Cardinality(set) ELSE SuggestLimit)
        |-> list[KthOf(set, k)]]

\* the alias keys of an entry: its matchKeys after the first
AliasKeysOf(e) == {e.matchKeys[i] : i \in 2..Len(e.matchKeys)}

\* C12 as the code has it: with the suggestions open, the entries shown are
\* the first 10 of the ranked list when the normalized token is empty, else
\* the first 10, in rank order, of exactly the entries whose canonical tag in
\* lower case (width-normalized, trimmed) or one of whose alias keys contains
\* the normalized token.
C12_ShownAreFirstTenMatchingFolded ==
    (pure.fn = "suggestions" /\ pure.phase = "done" /\ pure.show)
        => LET tokenNorm == normalizeAliasKey(pure.token)
               matching == {i \in 1..Len(pure.all) :
                               \/ tokenNorm = <<>>
                               \/ includes(toLowerCase(trim(NFKC(pure.all[i].tag))), tokenNorm)
                               \/ \E k \in AliasKeysOf(pure.all[i]) : includes(k, tokenNorm)}
           IN pure.out = FirstOfThose(pure.all, matching)

\* More than 10 entries of a ranked list match a token that is not empty,
\* some entry before the tenth of them does not, and 10 are shown.
C12_Witness ==
    /\ pure.fn = "suggestions"
    /\ pure.phase = "done"
    /\ pure.show
    /\ normalizeAliasKey(pure.token) # <<>>
    /\ Len(pure.out) = SuggestLimit
    /\ Len(pure.all) > SuggestLimit
    /\ pure.out # SubSeq(pure.all, 1, SuggestLimit)

\* C12: with the suggestions open, the entries shown are the first 10 of the
\* ranked list when the normalized token is empty, else the first 10, in rank
\* order, of exactly the entries whose canonical tag or one of whose alias
\* keys contains the normalized token.
C12_ShownAreFirstTenMatching ==
    (pure.fn = "suggestions" /\ pure.phase = "done" /\ pure.show)
        => LET tokenNorm == normalizeAliasKey(pure.token)
               matching == {i \in 1..Len(pure.all) :
                               \/ tokenNorm = <<>>
                               \/ includes(pure.all[i].tag, tokenNorm)
                               \/ \E k \in AliasKeysOf(pure.all[i]) : includes(k, tokenNorm)}
           IN pure.out = FirstOfThose(pure.all, matching)

(***************************************************************************)
(* Properties of the composer's active token and tag insertion             *)
(***************************************************************************)

\* 0-based indices of the "#" before the cursor
HashesBefore(text, cursor) == {i \in 0..(cursor - 1) : text[i + 1] = "#"}

LastHashBefore(text, cursor) ==
    CHOOSE i \in HashesBefore(text, cursor) : \A j \in HashesBefore(text, cursor) : j <= i

\* C13: getActiveTagToken(text, cursor) returns None exactly when there is no
\* "#" before the cursor, or the last such "#" is immediately preceded by a
\* character that is not white space, or white space occurs between that "#"
\* and the cursor; otherwise it returns the index of that last "#" and the raw
\* text strictly between it and the cursor, which holds neither white space
\* nor "#".
C13_ActiveTokenExactly ==
    (pure.fn = "useTagSuggest" /\ pure.phase = "rendered")
        => LET text == pure.text
               cursor == pure.cursor
               none == \/ HashesBefore(text, cursor) = {}
                       \/ LET h == LastHashBefore(text, cursor)
                          IN \/ h > 0 /\ text[h] \notin WhiteSpace
                             \/ \E i \in (h + 1)..(cursor - 1) : text[i + 1] \in WhiteSpace
           IN /\ (pure.active = NoActiveToken) <=> none
              /\ ~none =>
                    LET h == LastHashBefore(text, cursor)
                    IN /\ pure.active = ActiveToken(h, SubSeq(text, h + 2, cursor))
                       /\ \A i \in 1..Len(pure.active.token) :
                             pure.active.token[i] \notin WhiteSpace \cup {"#"}

\* A token is returned for a "#" that follows white space and an earlier "#",
\* with text typed after it.
C13_Witness ==
    /\ pure.fn = "useTagSuggest"
    /\ pure.phase = "rendered"
    /\ pure.active # NoActiveToken
    /\ pure.active.hashIndex > 1
    /\ pure.active.token # <<>>
    /\ Cardinality(HashesBefore(pure.text, pure.cursor)) > 1

\* 0-based index of the first white space at or after the cursor, else the
\* length of the text
FirstWhiteSpaceFrom(text, c) ==
    LET at == {i \in c..(Len(text) - 1) : text[i + 1] \in WhiteSpace}
    IN IF at = {} THEN Len(text) ELSE CHOOSE i \in at : \A j \in at : i <= j

\* C14: with an active token at hashIndex and the cursor at c, insertTag(tag)
\* makes the text text[0..hashIndex) + "#" + tag + sp + text[end..), end being
\* the first white space at or after c or the end of the text, and sp one
\* space exactly when auto-space is on and there is no white space character
\* at end; the timer it sets places the cursor right after the inserted text,
\* sp included.  "foo #he|" with the tag 健康 and auto-space gives "foo #健康 "
\* with the cursor after the space.
C14_InsertTagReplacesToken ==
    (/\ pure.fn = "useTagSuggest"
     /\ pure.phase \in {"inserted", "placed"}
     /\ pure.active # NoActiveToken
     /\ pure.out.done)
        => LET text == pure.text
               end == FirstWhiteSpaceFrom(text, pure.cursor)
               sp == IF pure.autoSpace /\ ~(end < Len(text) /\ text[end + 1] \in WhiteSpace)
                     THEN <<" ">> ELSE <<>>
               head == SubSeq(text, 1, pure.active.hashIndex) \o <<"#">> \o pure.tag \o sp
           IN /\ pure.out.nextText = head \o SubSeq(text, end + 1, Len(text))
              /\ (pure.phase = "placed" /\ pure.el) => pure.selection = Len(head)
              /\ (text = ExampleText /\ pure.cursor = Len(text) /\ pure.tag = ExampleTag
                        /\ pure.autoSpace)
                    => pure.out.nextText = <<"f", "o", "o", " ", "#">> \o ExampleTag \o <<" ">>

\* "foo #he|" got the tag 健康 with auto-space, and the timer has placed the
\* cursor after the added space, at the end of the new text.
C14_Witness ==
    /\ pure.fn = "useTagSuggest"
    /\ pure.phase = "placed"
    /\ pure.text = ExampleText
    /\ pure.cursor = Len(ExampleText)
    /\ pure.tag = ExampleTag
    /\ pure.autoSpace
    /\ pure.out.done
    /\ pure.selection = Len(pure.out.nextText)
    /\ pure.out.nextText[pure.selection] = " "

(***************************************************************************)
(* Properties of runIdle                                                   *)
(***************************************************************************)

RECURSIVE HandlesOf(_, _)
HandlesOf(m, ls) ==
    IF ls = {} THEN 0
    ELSE LET l == CHOOSE x \in ls : TRUE
         IN handles[m][l] + HandlesOf(m, ls \ {l})

ActiveSubscriptions(m) == HandlesOf(m, Listeners)

\* C16: for the day cache and the alias cache alike, each unsubscribe handle
\* being invoked at most once, the cache's listeners on the storage event and
\* on the same-tab mutation notification are attached exactly when it has at
\* least one active subscription.
C16_AttachedIffSubscribed ==
    \A m \in {"days", "aliases"} :
        /\ m \in winListeners <=> ActiveSubscriptions(m) >= 1
        /\ m \in mutationListeners <=> ActiveSubscriptions(m) >= 1

\* The alias cache was subscribed twice and unsubscribed once, and is still
\* attached; the day cache was subscribed and unsubscribed, and is detached.
C16_Witness ==
    /\ lastOp.name = "unsubscribeTagAliases"
    /\ ActiveSubscriptions("aliases") = 1
    /\ "aliases" \in winListeners \cap mutationListeners
    /\ ActiveSubscriptions("days") = 0
    /\ "days" \notin winListeners \cup mutationListeners
    /\ daysStore.loaded

(***************************************************************************)
(* Properties of the day cache's notifications and of the throttles        *)
(***************************************************************************)

\* C17: a refresh of the day cache, forced or not, notifies the subscribers
\* only on the first load or when the list it scanned differs by value from
\* the list cached before; when the scanned list is equal by value, the old
\* list object stays cached and nobody is notified.
C17_RefreshNotifiesOnlyOnChange ==
    [][lastOp'.name \in DaysLoadNames
          => /\ lastOp'.emitted
                    => \/ ~daysStore.loaded
                       \/ daysStore'.cache.val # daysStore.cache.val
             /\ (daysStore.loaded /\ daysStore'.cache.val = daysStore.cache.val)
                    => daysStore'.cache.ref = daysStore.cache.ref]_vars

\* C18: in both coordinators the gate time is the time of the last request
\* that passed the throttle, and a request without force made less than
\* throttleMs after it is dropped: no job is scheduled or queued, nothing is
\* loaded, and the coordinator's gate time and pending job stay as they were.
C18_ThrottledRequestDropped ==
    [][/\ lastOp'.name = "requestDaysRefresh"
          => IF ~lastOp'.force /\ now - daysRefresh.lastRequestedAt < ThrottleMsDefault
             THEN /\ tasks' = tasks
                  /\ daysRefresh' = daysRefresh
                  /\ daysStore' = daysStore
                  /\ ~lastOp'.scanned
             ELSE daysRefresh'.lastRequestedAt = now
       /\ lastOp'.name = "requestTagAliasesRefresh"
          => IF ~lastOp'.force /\ now - aliasesStore.refreshGateMs < ThrottleMsDefault
             THEN /\ tasks' = tasks
                  /\ aliasesStore' = aliasesStore
             ELSE aliasesStore'.refreshGateMs = now
       /\ lastOp'.name \notin {"requestDaysRefresh", "requestTagAliasesRefresh"}
          => /\ daysRefresh'.lastRequestedAt = daysRefresh.lastRequestedAt
             /\ aliasesStore'.refreshGateMs = aliasesStore.refreshGateMs]_vars

\* A request without force to the alias coordinator has just been dropped
\* inside the window of an earlier one whose job has run already, so nothing
\* is pending; the day coordinator's window is open too, with nothing pending.
C18_Witness ==
    /\ lastOp.name = "requestTagAliasesRefresh"
    /\ ~lastOp.force
    /\ aliasesStore.refreshGateMs > 0
    /\ now > aliasesStore.refreshGateMs
    /\ now - aliasesStore.refreshGateMs < ThrottleMsDefault
    /\ daysRefresh.lastRequestedAt > 0
    /\ now > daysRefresh.lastRequestedAt
    /\ now - daysRefresh.lastRequestedAt < ThrottleMsDefault
    /\ tasks = {}

\* C19: in the alias coordinator at most one deferred reload, idle job or
\* zero-delay timer, is pending in every reachable state, whatever force and
\* immediate the requests carry.
C19_AtMostOneAliasReload == Cardinality(AliasJobs) <= 1

(***************************************************************************)
(* Properties of saves into a storage that refuses the write               *)
(***************************************************************************)

\* a save of which a setItem call failed
WriteFailed(op) ==
    \/ op.name = "saveDay" /\ isYmdString(op.key[2]) /\ op.writes < 2
    \/ op.name = "saveTagAliasesAndNotify" /\ op.writes < 1

\* C20: when the write to the storage fails, saveDay and
\* saveTagAliasesAndNotify are silent no-ops: no exception reaches the caller,
\* no same-tab notification is made (no dirty flag set, no reload scheduled),
\* and the value and the loaded flag of both caches stay as they were.
C20_FailedWriteIsSilentNoOp ==
    [][WriteFailed(lastOp')
          => /\ ~lastOp'.threw
             /\ daysStore' = daysStore
             /\ aliasesStore' = aliasesStore
             /\ tasks' = tasks]_vars

(***************************************************************************)
(* Properties of the suggestion engine (useTagSuggest)                     *)
(***************************************************************************)

\* the composer is mounted and its suggestion UI is open / closed
HookOpen == pure.fn = "useTagSuggest" /\ pure.mounted /\ pure.show

HookClosed == pure.fn = "useTagSuggest" /\ pure.mounted /\ ~pure.show

\* isComputing as a render in the current state reports it
ReportsComputing ==
    renderHook(pure, daysStore, aliasesStore, store, pure.show).isComputing

\* C21: whenever the suggestion UI is open and either a suggestion job is
\* pending or the day entries or the alias dictionary are not loaded yet, the
\* engine reports isComputing = true.
C21_ComputingWhileWorkPending ==
    HookOpen /\ (SuggestJobs # {} \/ ~daysStore.loaded \/ ~aliasesStore.loaded)
        => ReportsComputing

\* C22: while the suggestion UI is closed no suggestion job is pending, the
\* list shown is empty and isComputing is false; a refresh() of the engine, or
\* a render that leaves it closed, scans no store, schedules nothing and
\* leaves both caches and both coordinators as they were.
C22_ClosedEngineIdle ==
    /\ [](HookClosed =>
            /\ SuggestJobs = {}
            /\ ~ReportsComputing
            /\ renderHook(pure, daysStore, aliasesStore, store, FALSE).suggestions = <<>>
            /\ pure.suggestions = <<>>)
    /\ [][HookClosed /\ HookClosed' /\ lastOp'.name \in {"refresh", "render"}
            => /\ UNCHANGED <<daysRefresh, daysStore, aliasesStore, tasks>>
               /\ ~lastOp'.scanned]_vars

\* refresh() is called while the UI is closed and a rescan of the days is due
C22_Witness ==
    /\ HookClosed
    /\ lastOp.name = "refresh"
    /\ daysStore.loaded /\ daysStore.dirty
    /\ now - daysRefresh.lastRequestedAt < ThrottleMsDefault

\* a render of the mounted composer that finds the UI open and leaves it open
OpenRender == HookOpen /\ HookOpen' /\ lastOp'.name = "render"

C23_CoalescedJobSeesEveryChange ==
    [][lastOp'.name = "daysJob" /\ pure.joined
          => /\ daysStore'.loaded
             /\ daysStore'.cache.val = scanDaysFromStorage(store')]_vars

\* C24: a storage event for a day key or the last-write key, or a saveDay of
\* this tab, reaching the subscribed day cache makes days-refresh schedule a
\* rescan: after the event a days job is pending or the scan has run.
C24_DirtyingEventSchedulesRescan ==
    [][/\ daysStore.refCount >= 1
       /\ \/ lastOp'.name = "storageEvent" /\ DayOrMetaKey(lastOp'.key)
          \/ lastOp'.name = "saveDay"
       => DaysJobs' # {} \/ lastOp'.scanned]_vars

\* the day keys of the storage differ in number or in newest date from those
\* of the last scan, the last-write key does not, and nothing marked the
\* loaded cache dirty
KeysChangedUnnoticed ==
    /\ daysStore.loaded
    /\ ~daysStore.dirty
    /\ readStamp(store) = daysStore.stamp
    /\ \/ computeKeyStats(store).count # daysStore.keyCount
       \/ computeKeyStats(store).max # daysStore.maxYmd

\* C25: every scan records the number of day keys and the newest date of the
\* storage it read; and a loadDaysIfNeeded without force that finds either
\* changed, with the last-write key unchanged and the cache not dirty, scans
\* and returns and caches the content of the storage.
C25_KeyStatsForceRescan ==
    [][/\ lastOp'.scanned
            => /\ daysStore'.keyCount = Cardinality({k \in DayKeys : store'[k] # Absent})
               /\ daysStore'.maxYmd = computeKeyStats(store').max
               /\ daysStore'.stamp = readStamp(store')
       /\ (KeysChangedUnnoticed /\ lastOp'.name = "loadDaysIfNeeded" /\ ~lastOp'.force)
            => /\ lastOp'.scanned
               /\ lastOp'.ret.val = scanDaysFromStorage(store')
               /\ daysStore'.cache.val = scanDaysFromStorage(store')
               /\ ~KeysChangedUnnoticed']_vars

\* a load without force has rescanned a cache that held a list already, in a
\* tab where no event reaches the cache and no write touches the last-write key
C25_Witness ==
    /\ lastOp.name = "loadDaysIfNeeded"
    /\ ~lastOp.force
    /\ lastOp.scanned
    /\ lastOp.ret.ref = 2
    /\ readStamp(store) = NoStamp
    /\ daysStore.refCount = 0
    /\ Len(lastOp.ret.val) = 2

(***************************************************************************)
(* Properties of an alias reload                                           *)
(***************************************************************************)

AliasReloadNames == {"loadTagAliasesIfNeeded", "aliasesIdle", "aliasesTimer"}

\* C26: a reload of the alias dictionary (reloadNow past shouldReload) leaves
\* loaded set and dirty clear; on the first load, or when the dictionary read
\* differs from the cached one in a key or a value, it caches the dictionary
\* read as a new object and notifies every subscriber; otherwise it keeps the
\* cached object and notifies nobody.
C26_ReloadReplacesOnlyOnDifference ==
    [][lastOp'.name \in AliasReloadNames /\ lastOp'.scanned =>
          LET next == loadTagAliases(store')
              differs == ~aliasesStore.loaded \/ AsMap(aliasesStore.cache.val) # AsMap(next)
          IN /\ aliasesStore'.loaded /\ ~aliasesStore'.dirty
             /\ differs => /\ aliasesStore'.cache.val = next
                           /\ aliasesStore'.cache.ref # aliasesStore.cache.ref
                           /\ lastOp'.emitted
                           /\ lastOp'.notified = aliasesStore.listeners
             /\ ~differs => /\ aliasesStore'.cache = aliasesStore.cache
                            /\ ~lastOp'.emitted
                            /\ lastOp'.notified = {}
             /\ lastOp'.ret = aliasesStore'.cache]_vars

\* a reload of a dirty cache with a subscriber has read a stored dictionary
\* with the keys and values of the cached one, written otherwise (another
\* key order, or a key or value that normalizes to the cached one), and has
\* kept the cached object
C26_Witness ==
    /\ lastOp.name \in AliasReloadNames
    /\ lastOp.scanned
    /\ ~lastOp.emitted
    /\ ~lastOp.force
    /\ aliasesStore.listeners # {}
    /\ store[TAG_ALIASES_KEY] # Absent
    /\ store[TAG_ALIASES_KEY].d # aliasesStore.cache.val
    /\ lastOp.ret = aliasesStore.cache

(***************************************************************************)
(* Properties of saveDay                                                   *)
(***************************************************************************)

\* the step is a saveDay of a valid date that returned
SaveDayReturned(op) == op.name = "saveDay" /\ isYmdString(op.key[2]) /\ ~op.threw

\* C30: a saveDay of a valid date that returns has written the day record and
\* the last-write key and has then called the mutation listeners, so a
\* subscribed day cache is dirty; the last-write key is never written before
\* the day record nor a listener called before the last-write key; and a
\* loadDaysIfNeeded that follows at once on a subscribed cache scans and
\* returns a list holding the record written.
C30_SaveDayWritesThenNotifies ==
    [][/\ SaveDayReturned(lastOp')
            => /\ store'[dayKey(lastOp'.key[2])] = DayJson(<<Item1>>)
               /\ store'[META_UPDATED_AT_KEY] = Stamp(now)
               /\ lastOp'.writes = 2
               /\ "days" \in mutationListeners => daysStore'.dirty
               /\ "aliases" \in mutationListeners => aliasesStore'.dirty
               /\ daysStore.refCount >= 1 => daysStore'.dirty
       /\ lastOp'.name = "saveDay"
            => /\ lastOp'.writes >= 1 => /\ isYmdString(lastOp'.key[2])
                                         /\ store'[dayKey(lastOp'.key[2])] = DayJson(<<Item1>>)
               /\ lastOp'.writes = 0 => store' = store
               /\ lastOp'.writes < 2 => /\ store'[META_UPDATED_AT_KEY] = store[META_UPDATED_AT_KEY]
                                        /\ daysStore' = daysStore
                                        /\ aliasesStore' = aliasesStore
       /\ (SaveDayReturned(lastOp) /\ daysStore.refCount >= 1
             /\ lastOp'.name = "loadDaysIfNeeded")
            => /\ lastOp'.scanned
               /\ \E i \in 1..Len(lastOp'.ret.val) :
                     lastOp'.ret.val[i] =
                         [ymd |-> lastOp.key[2],
                          day |-> normalizeDay(lastOp.key[2], DayJson(<<Item1>>))]
               /\ daysStore'.cache = lastOp'.ret]_vars

\* saveDay has returned over a loaded, subscribed cache whose stamp, key
\* count and newest date match the storage: only dirty tells of the write
C30_Witness ==
    /\ SaveDayReturned(lastOp)
    /\ daysStore.refCount >= 1
    /\ daysStore.loaded
    /\ daysStore.dirty
    /\ readStamp(store) = daysStore.stamp
    /\ computeKeyStats(store).count = daysStore.keyCount
    /\ computeKeyStats(store).max = daysStore.maxYmd

(***************************************************************************)
(* app/today/TodayClient.tsx: the Today view of this tab, and the Today     *)
(* view of another tab writing the same day record                          *)
(***************************************************************************)

Item2 == [id |-> "i2", text |-> "read"]
Item3 == [id |-> "i3", text |-> "cook"]

\* asMood gives null for anything but the three moods
NoMood == "null"
Moods == {"good", "tough"}

\* JSON.stringify(payload) of saveDay: items, mood and memo
DayJsonFull(items, mood, memo) ==
    [t |-> "day", items |-> items, mood |-> mood, memo |-> memo]

\* loadDay(ymd): the empty day for a missing key, otherwise normalizeDay
loadDay(storage, ymd) ==
    LET raw == storage[dayKey(ymd)]
    IN IF raw = Absent THEN [ymd |-> ymd, items |-> <<>>, mood |-> NoMood, memo |-> ""]
       ELSE [ymd |-> ymd,
             items |-> normalizeDay(ymd, raw).items,
             mood |-> IF raw.t = "day" /\ "mood" \in DOMAIN raw /\ raw.mood \in Moods
                      THEN raw.mood ELSE NoMood,
             memo |-> IF raw.t = "day" /\ "memo" \in DOMAIN raw THEN raw.memo ELSE ""]

\* the two setItem calls of saveDay(day) at time t
saveDayRecord(storage, day, t) ==
    IF ~isYmdString(day.ymd) THEN storage
    ELSE [storage EXCEPT ![dayKey(day.ymd)] = DayJsonFull(day.items, day.mood, day.memo),
                         ![META_UPDATED_AT_KEY] = Stamp(t)]

mergeWithStored_StoredAlways(storage, day, partial) ==
    LET stored == loadDay(storage, day.ymd)
    IN [f \in {"ymd", "items", "mood", "memo"} |->
           IF f \in DOMAIN partial THEN partial[f] ELSE stored[f]]

\* mergeWithStored(partial) of a render whose state is `day`: the stored record
\* is the base unless the view holds more items than it; partial goes on top
mergeWithStored(storage, day, partial) ==
    LET stored == loadDay(storage, day.ymd)
        base == IF Len(stored.items) >= Len(day.items) THEN stored ELSE day
    IN [f \in {"ymd", "items", "mood", "memo"} |->
           IF f \in DOMAIN partial THEN partial[f]
           ELSE IF f = "ymd" THEN day.ymd ELSE base[f]]

ItemIds(items) == {items[i].id : i \in 1..Len(items)}

\* memoTimerRef.current === null
NoMemoTimer == [set |-> FALSE]

TodayIdle ==
    [fn |-> "TodayClient",
     day |-> loadDay(EmptyStorage, Ymds[1]),
     saveState |-> "idle",
     memoTimer |-> NoMemoTimer,
     other |-> loadDay(EmptyStorage, Ymds[1]),
     added |-> {},
     deleted |-> {}]

\* persist(next): saveDay, flashSaved and the forced refresh request, the
\* view's state becoming `shown` and its memo timer `timer`.  What another
\* writer added counts from this write on.
persist(next, shown, timer, name) ==
    LET st == saveDayRecord(store, next, now)
        ds == emitStorageMutation(daysStore, mutationListeners)
        r == requestDaysRefresh(daysRefresh, ds, st, tasks, hasIdle, now,
                                TRUE, FALSE, ThrottleMsDefault, LiveRefs)
    IN /\ Cardinality(r.tasks) <= MaxTasks
       /\ store' = st
       /\ aliasesStore' = emitStorageMutationAliases(aliasesStore, mutationListeners)
       /\ daysRefresh' = r.dr
       /\ tasks' = r.tasks
       /\ daysStore' = r.load.st
       /\ pure' = [pure EXCEPT !.day = shown, !.saveState = "saved", !.added = {},
                               !.memoTimer = timer,
                               !.deleted = IF name = "deleteItem"
                                           THEN @ \cup (ItemIds(pure.day.items)
                                                         \ ItemIds(next.items))
                                           ELSE IF name = "addItem"
                                           THEN @ \ ItemIds(next.items)
                                           ELSE @]
       /\ lastOp' = Op(name, TRUE, FALSE, dayKey(next.ymd), r.load,
                       Notified(ds.listeners, r.load))
       /\ UNCHANGED <<now, hasIdle, events, winListeners, mutationListeners,
                      handles, saved>>

\* a handler of the view that returns before it changes anything
TodayRejects(name) ==
    /\ lastOp' = Plain(name)
    /\ UNCHANGED <<now, hasIdle, store, events, tasks, winListeners, mutationListeners,
                   daysStore, daysRefresh, aliasesStore, handles, saved, pure>>

InSeq(x, s) == \E i \in 1..Len(s) : s[i] = x

HasId(id, items) == \E i \in 1..Len(items) : items[i].id = id

TodayAddText_NoTrim(id, text) ==
    /\ ~HasId(id, pure.day.items)
    /\ persist([pure.day EXCEPT !.items = <<[id |-> id, text |-> text]>> \o @],
               [pure.day EXCEPT !.items = <<[id |-> id, text |-> text]>> \o @],
               pure.memoTimer, "addItem")

\* addItem(text), createId giving `id`, an id the day does not hold yet
TodayAddText(id, text) ==
    /\ ~HasId(id, pure.day.items)
    /\ LET v == trim(text)
       IN IF v = <<>> THEN TodayRejects("addItemRejected")
          ELSE persist([pure.day EXCEPT !.items = <<[id |-> id, text |-> v]>> \o @],
                       [pure.day EXCEPT !.items = <<[id |-> id, text |-> v]>> \o @],
                       pure.memoTimer, "addItem")

\* addItem with a text that needs no trimming
TodayAddItem(item) ==
    /\ ~InSeq(item, pure.day.items)
    /\ persist([pure.day EXCEPT !.items = <<item>> \o @],
               [pure.day EXCEPT !.items = <<item>> \o @], pure.memoTimer, "addItem")

mapText(items, id, v) ==
    [i \in 1..Len(items) |-> IF items[i].id = id THEN [items[i] EXCEPT !.text = v]
                             ELSE items[i]]

\* editItemText(id, nextText)
TodayEditItemText(id, nextText) ==
    LET v == trim(nextText)
    IN IF v = <<>> THEN TodayRejects("editItemTextRejected")
       ELSE persist([pure.day EXCEPT !.items = mapText(@, id, v)],
                    [pure.day EXCEPT !.items = mapText(@, id, v)],
                    pure.memoTimer, "editItemText")

\* deleteItem(id)
TodayDeleteItem(id) ==
    /\ HasId(id, pure.day.items)
    /\ persist([pure.day EXCEPT !.items = SelectSeq(@, LAMBDA x : x.id # id)],
               [pure.day EXCEPT !.items = SelectSeq(@, LAMBDA x : x.id # id)],
               pure.memoTimer, "deleteItem")

\* toggleMood(nextMood)
TodayToggleMood(nextMood) ==
    /\ nextMood \in Moods
    /\ LET merged == mergeWithStored(store, pure.day,
                         [mood |-> IF pure.day.mood = nextMood THEN NoMood ELSE nextMood])
       IN persist(merged, merged, pure.memoTimer, "toggleMood")

\* onMemoChange(v): setDay(merged) and a new 350 ms timer in place of the
\* pending one; its callback closes over mergeWithStored of this render, whose
\* `day` is the state before this setDay
TodayMemoChange(v) ==
    /\ pure' = [pure EXCEPT !.day = mergeWithStored(store, pure.day, [memo |-> v]),
                            !.memoTimer = [set |-> TRUE, v |-> v, day |-> pure.day]]
    /\ lastOp' = Plain("onMemoChange")
    /\ UNCHANGED <<now, hasIdle, store, events, tasks, winListeners, mutationListeners,
                   daysStore, daysRefresh, aliasesStore, handles, saved>>

\* the memo timer fires: persist(mergeWithStored({ memo: v })), no setDay.
\* memoTimerRef keeps the id of the timer that ran.
MemoTimerFires ==
    /\ pure.memoTimer.set
    /\ persist(mergeWithStored(store, pure.memoTimer.day, [memo |-> pure.memoTimer.v]),
               pure.day, NoMemoTimer, "memoTimer")

\* the timer of flashSaved fires
SaveTimerFires ==
    /\ pure.saveState = "saved"
    /\ pure' = [pure EXCEPT !.saveState = "idle"]
    /\ lastOp' = Plain("saveTimer")
    /\ UNCHANGED <<now, hasIdle, store, events, tasks, winListeners, mutationListeners,
                   daysStore, daysRefresh, aliasesStore, handles, saved>>

\* The other tab opens its Today view: useState(() => loadDay(ymd)).
OtherTodayMount ==
    /\ pure.other # loadDay(store, Ymds[1])
    /\ pure' = [pure EXCEPT !.other = loadDay(store, Ymds[1])]
    /\ lastOp' = Plain("otherMount")
    /\ UNCHANGED <<now, hasIdle, store, events, tasks, winListeners, mutationListeners,
                   daysStore, daysRefresh, aliasesStore, handles, saved>>

\* addItem in the Today view of the other tab: saveDay there writes its
\* in-memory day with the item in front.  No listener of this tab is attached
\* in this specification, so the "storage" events it causes reach nobody.
OtherTodayAddItem(item) ==
    /\ ~InSeq(item, pure.other.items)
    /\ LET next == [pure.other EXCEPT !.items = <<item>> \o @]
       IN /\ store' = saveDayRecord(store, next, now)
          /\ pure' = [pure EXCEPT !.other = next, !.added = @ \cup {item}]
          /\ lastOp' = Op("otherAddItem", FALSE, FALSE, dayKey(next.ymd), Silent, {})
    /\ UNCHANGED <<now, hasIdle, events, tasks, winListeners, mutationListeners,
                   daysStore, daysRefresh, aliasesStore, handles, saved>>

InitToday ==
    /\ InitModules
    /\ hasIdle = TRUE
    /\ store = EmptyStorage
    /\ pure = TodayIdle

NextToday ==
    \/ \E item \in {Item1, Item2} : TodayAddItem(item)
    \/ \E id \in {Item1.id, Item2.id} : TodayDeleteItem(id)
    \/ \E m \in Moods : TodayToggleMood(m)
    \/ SaveTimerFires
    \/ OtherTodayMount
    \/ OtherTodayAddItem(Item3)
    \/ \E t \in tasks : RunDaysJob(t)

SpecToday == InitToday /\ [][NextToday]_vars

\* what the user may type as an item's text or as the memo
TodayTexts == {<<>>, <<" ">>, <<"a">>, <<" ", "b", " ">>}
TodayIds == {"i1", "i2"}
TodayMemos == {"", "m"}

\* One Today view: every handler, texts as typed.  The refresh job persist
\* requests stays pending: it reads the store and writes neither the store nor
\* the view.
NextTodayEdit ==
    \/ \E id \in TodayIds, text \in TodayTexts : TodayAddText(id, text)
    \/ \E id \in TodayIds, text \in TodayTexts : TodayEditItemText(id, text)
    \/ \E id \in TodayIds : TodayDeleteItem(id)
    \/ TodayToggleMood("good")
    \/ \E v \in TodayMemos : TodayMemoChange(v)
    \/ MemoTimerFires
    \/ SaveTimerFires

SpecTodayEdit == InitToday /\ [][NextTodayEdit]_vars

(***************************************************************************)
(* Properties of the Today view                                            *)
(***************************************************************************)

\* C28: a mood update of a Today view whose day is older than the stored
\* record persists a record that still holds every item another writer added
\* to the stored record since the view last read or wrote it.
C28_MoodUpdateKeepsAddedItems ==
    [][lastOp'.name = "toggleMood"
       => \A x \in pure.added : InSeq(x, loadDay(store', Ymds[1]).items)]_vars

(***************************************************************************)
(* lib/storage.ts: scanDaysFromStorage over any store contents             *)
(***************************************************************************)

\* a key with the day prefix whose suffix isYmdString rejects
NotYmdKey == <<DAY_KEY_PREFIX, "2024-1-1">>

ScanKeys == StoreKeys \cup {NotYmdKey}

\* an item normalizeItem rejects (its text is empty after trim)
BlankItem == [id |-> "i9", text |-> ""]

\* what a key of the store may hold: nothing, text that is no JSON object,
\* and records, one of them with an embedded date that is not the key's
ScanRaws ==
    {Absent, Malformed, DayJson(<<>>), DayJson(<<Item1>>), DayJson(<<BlankItem, Item1>>),
     [t |-> "day", items |-> <<Item1>>, ymd |-> Ymds[2]]}

ScanIdle == [fn |-> "scanDaysFromStorage", done |-> FALSE, out |-> <<>>]

\* scanDaysFromStorage(window.localStorage)
CallScanDays ==
    /\ ~pure.done
    /\ pure' = [pure EXCEPT !.done = TRUE, !.out = scanDaysFromStorage(store)]
    /\ lastOp' = Plain("scanDaysFromStorage")
    /\ UNCHANGED <<now, hasIdle, store, events, tasks, winListeners, mutationListeners,
                   daysStore, daysRefresh, aliasesStore, handles, saved>>

InitScan ==
    /\ InitModules
    /\ hasIdle = TRUE
    /\ store \in [ScanKeys -> ScanRaws]
    /\ store[META_UPDATED_AT_KEY] = Absent
    /\ store[TAG_ALIASES_KEY] = Absent
    /\ pure = ScanIdle

NextScan == CallScanDays

SpecScan == InitScan /\ [][NextScan]_vars

(***************************************************************************)
(* Properties of scanDaysFromStorage                                       *)
(***************************************************************************)

\* C31: the scan returns exactly one entry per day key with a YYYY-MM-DD
\* suffix whose value parses as a record and none for a key whose value is
\* unparsable; each entry's date is the key's; the dates strictly decrease.
C31_ScanReturnsValidRecordsNewestFirst ==
    pure.fn = "scanDaysFromStorage" /\ pure.done =>
        /\ \A k \in DOMAIN store :
              Cardinality({i \in 1..Len(pure.out) : dayKey(pure.out[i].ymd) = k})
                  = IF k[1] = DAY_KEY_PREFIX /\ isYmdString(k[2]) /\ store[k].t = "day"
                    THEN 1 ELSE 0
        /\ \A i \in 1..Len(pure.out) : pure.out[i].day.ymd = pure.out[i].ymd
        /\ \A i \in 1..(Len(pure.out) - 1) : YmdAfter(pure.out[i].ymd, pure.out[i + 1].ymd)

\* the same with an entry for every value present, parsable or not
C31_ScanReturnsPresentKeys ==
    pure.fn = "scanDaysFromStorage" /\ pure.done =>
        /\ \A k \in DOMAIN store :
              Cardinality({i \in 1..Len(pure.out) : dayKey(pure.out[i].ymd) = k})
                  = IF k[1] = DAY_KEY_PREFIX /\ isYmdString(k[2]) /\ store[k] # Absent
                    THEN 1 ELSE 0
        /\ \A i \in 1..Len(pure.out) : pure.out[i].day.ymd = pure.out[i].ymd
        /\ \A i \in 1..(Len(pure.out) - 1) : YmdAfter(pure.out[i].ymd, pure.out[i + 1].ymd)

(***************************************************************************)
(* Properties of the items a Today view persists                           *)
(***************************************************************************)

StoredItems(k) == IF store[k].t = "day" THEN store[k].items ELSE <<>>

\* C32: whatever the Today view did, every persisted day record has items
\* with pairwise distinct ids and no item whose text is empty after trimming.
C32_PersistedItemsDistinctNonBlank ==
    \A k \in DayKeys :
        /\ \A i, j \in 1..Len(StoredItems(k)) :
              i # j => StoredItems(k)[i].id # StoredItems(k)[j].id
        /\ \A i \in 1..Len(StoredItems(k)) : trim(StoredItems(k)[i].text) # <<>>

\* two items persisted, one of them edited, after a blank text was refused
C32_Witness ==
    /\ lastOp.name = "editItemText"
    /\ Len(StoredItems(dayKey(Ymds[1]))) = 2
    /\ \E i \in 1..2 : StoredItems(dayKey(Ymds[1]))[i].text = <<"b">>
    /\ store[dayKey(Ymds[1])].memo = "m"

\* C37: once deleteItem has persisted a deletion, no later mood or memo persist
\* of the view writes a record that holds the deleted item again.
C37_DeletedItemStaysDeleted ==
    [][lastOp'.name \in {"toggleMood", "memoTimer"}
       => \A id \in pure.deleted : ~HasId(id, StoredItems(dayKey(Ymds[1]))')]_vars

\* C38: addItem, editItemText and deleteItem of this tab leave in the stored
\* record every item another tab persisted since this tab last read or wrote
\* the day.
C38_ItemEditsKeepOtherTabsItems ==
    [][lastOp'.name \in {"addItem", "editItemText", "deleteItem"}
       => \A x \in pure.added : InSeq(x, StoredItems(dayKey(Ymds[1]))')]_vars

(***************************************************************************)
(* Properties of "storage" events at the alias cache                       *)
(***************************************************************************)

\* C33: a "storage" event for a day key or the last-write key leaves the
\* alias cache as it is and schedules no reload; with the cache's listener
\* attached, an event for any other key leaves the cache dirty.
C33_AliasCacheIgnoresDayEvents ==
    [][lastOp'.name = "storageEvent" =>
          IF lastOp'.key[1] = DAY_KEY_PREFIX \/ lastOp'.key = META_UPDATED_AT_KEY
          THEN aliasesStore' = aliasesStore /\ tasks' = tasks
          ELSE "aliases" \in winListeners => aliasesStore'.dirty]_vars

\* a day-record event has just reached a loaded, clean, subscribed alias cache
C33_Witness ==
    /\ lastOp.name = "storageEvent"
    /\ lastOp.key[1] = DAY_KEY_PREFIX
    /\ "aliases" \in winListeners
    /\ aliasesStore.loaded
    /\ ~aliasesStore.dirty

(***************************************************************************)
(* Properties of the cached alias dictionary                               *)
(***************************************************************************)

\* the stored dictionary is absent, malformed or empty after normalization
NoStoredAliases ==
    \/ store[TAG_ALIASES_KEY].t # "dict"
    \/ normalizeEntries(store[TAG_ALIASES_KEY].d, 1, <<>>) = <<>>

\* C34: a loaded alias cache holds a non-empty dictionary whose keys are
\* non-empty fixed points of normalizeAliasKey and whose values are non-empty;
\* read from a store whose dictionary is absent, malformed or empty after
\* normalization, it is the built-in default set.
C34_LoadedDictionaryNormalized ==
    aliasesStore.loaded =>
        /\ Len(aliasesStore.cache.val) > 0
        /\ \A i \in 1..Len(aliasesStore.cache.val) :
              /\ aliasesStore.cache.val[i][1] # <<>>
              /\ normalizeAliasKey(aliasesStore.cache.val[i][1]) = aliasesStore.cache.val[i][1]
              /\ aliasesStore.cache.val[i][2] # <<>>
        /\ lastOp.name \in AliasReloadNames /\ lastOp.scanned /\ NoStoredAliases
              => aliasesStore.cache.val = DEFAULT_TAG_ALIASES

(***************************************************************************)
(* Properties of useTagAliases inside the suggestion engine                *)
(***************************************************************************)

\* C35: with the alias hook enabled, a render reports isLoading exactly when
\* the alias cache is not loaded at that render.
C35_LoadingIffCacheNotLoaded ==
    [][lastOp'.name = "render" /\ pure'.show
          => pure'.isAliasesLoading = ~aliasesStore.loaded]_vars

\* the open engine has rendered, no timer or idle callback is pending and no
\* notification is outstanding: unless the store changes, nothing runs again
HookSettled ==
    /\ HookOpen
    /\ lastOp.name = "render"
    /\ tasks = {}
    /\ events = {}

\* C36: with the suggestion UI open since its first opening, once every timer
\* and idle callback has run and the engine has rendered, isComputing is
\* false.  (With the store unchanged nothing runs after such a state, so an
\* engine computing there computes for ever.)
C36_SettledEngineNotComputing ==
    HookSettled => ~pure.isComputing

(***************************************************************************)
(* Properties of subscriptions whose handles are invoked more than once    *)
(***************************************************************************)

\* C39: whatever the subscribe and unsubscribe calls on either cache, a handle
\* invoked twice and a listener subscribed twice included, while a
\* subscription has not been unsubscribed the cache's external listeners are
\* attached and the subscription's listener is among those notified.
C39_AttachedWhileSubscribed ==
    \A m \in {"days", "aliases"} :
        LET st == IF m = "days" THEN daysStore ELSE aliasesStore
        IN \A l \in Listeners :
              handles[m][l] >= 1
                  => /\ m \in winListeners
                     /\ m \in mutationListeners
                     /\ l \in st.listeners

\* the external listeners are attached while a subscription is active
C39_AttachedPart ==
    \A m \in {"days", "aliases"} :
        ActiveSubscriptions(m) >= 1 => m \in winListeners /\ m \in mutationListeners

=============================================================================
